---- MODULE Spec2Model ----
(***************************************************************************)
(* Connection / protocol engine and safety interlock of the handheld       *)
(* Rocrail throttle firmware.                                              *)
(*                                                                         *)
(* Two programs live in the repository and both are modelled here:         *)
(*   SpecAsync  : rocrail_controller_asyncio.py with AsyncRocrailProtocol  *)
(*                and AsyncControllerState (cooperative tasks);            *)
(*   SpecThread : rocrail_controller.py with RocrailProtocol and           *)
(*                ControllerStateMachine (preemptive _thread threads).     *)
(* A specification leaves the variables of the other program unchanged.    *)
(***************************************************************************)
EXTENDS Integers, Sequences, FiniteSets, TLC

(***************************************************************************)
(* Bounds of the model (not program constants).                            *)
(***************************************************************************)
MaxConn == 2            \* transports opened in one run, ids 1..MaxConn
MaxFrames == 4          \* frames built in one run, start-up traffic included
MaxReconnectTasks == 2  \* _auto_reconnect tasks created in one run
MaxLocoId == 3          \* locomotive ids are 1..MaxLocoId
MaxCloses == 1          \* transports 1..MaxCloses are closed by the server
MaxEnvEvents == 3       \* things the user, the server and the network do in one run
MaxPressed == 1         \* buttons reported as pressed by one input read
MaxSockets == 2         \* sockets the platform can have at one time, ids 1..MaxSockets
MaxLoops == 2           \* _reconnect_loop threads the platform can start in one run
MaxAttempts == 3        \* connection attempts begun in one run
MaxServerCloses == 1    \* connections the server closes in one run (threaded program)
MaxMarks == 2           \* tags and entries in the receive buffer at one time
MaxBuffer == 24576      \* no packet is added to a receive buffer longer than this

\* Throttle samples the input layer delivers: zero and one nonzero value
\* (37 is the value of the spec's scenario D).
Speeds == {0, 37}

\* Rosters the server can answer with (already in the alphabetical order
\* LocoList._sort_alphabetically leaves them in).
ServerRosters == {<<2, 3>>} \cap [1..2 -> 1..MaxLocoId]

\* Rosters LocoList loads from its file at start-up; the controller adds the
\* default locomotive when the file holds none, so the list is never empty.
FileRosters == {<<1, 2>>}

VARIABLES
    \* ---- LocoList (lib/loco_list.py), used by both programs
    locomotives,          \* sequence of locomotive ids
    selected_index,       \* 0-based index into locomotives
    \* ---- AsyncControllerState
    speed_enabled,        \* _speed_enabled
    state_rocrail_status, \* _rocrail_status
    \* ---- AsyncRocrailProtocol
    reader, writer,       \* transport id, 0 is None
    protocol_lock,        \* task holding _protocol_lock, NoTask when free
    send_queue,           \* _send_queue
    queue_event,          \* _queue_event is set
    reconnect_task,       \* index of the _auto_reconnect task, 0 is None
    a_locomotives_loaded, \* locomotives_loaded
    query_pending,
    \* ---- LocomotiveControllerAsync
    current_speed, current_direction, current_light,
    last_speed,           \* local of _speed_control_task
    inputs,               \* local of _hardware_input_task
    \* ---- cooperative scheduler
    pc,                   \* position of every task
    current_task,         \* task that has the processor, NoTask between tasks
    pend,                 \* message a task is about to queue in _send_message
    msg,                  \* message a _send_task has popped
    ret,                  \* where a task continues after disconnect()
    io,                   \* transport a task is suspended on (read, drain)
    \* ---- network
    conn,                 \* state of every transport
    \* ---- observation of the run (history, not program state)
    nenv,                 \* events of the environment so far
    nframes,              \* frames built so far
    nenq,                 \* frames appended to _send_queue so far
    wire,                 \* the frames written to a transport, in the order of the writes
    lost,                 \* numbers of the safety frames taken from the queue and not written
    stale,                \* current_speed was sampled before the last context change
    await_zero,           \* a context change has not yet been followed by a zero sample
    notif                 \* the step just taken was a connection-loss notification

VARIABLES
    \* ---- RocrailProtocol (lib/protocol/rocrail_protocol.py), threaded program
    socket_client,        \* socket id, 0 is None
    running,              \* the listener loop condition
    rocrail_status,
    reconnect_running,
    reconnect_attempts,
    reconnect_enabled,
    socket_lock,          \* _socket_lock
    locomotives_loaded,
    locomotive_query_pending,
    \* ---- threads
    tpc,                  \* position of every thread
    hold,                 \* socket a thread is blocked on (connect, recv), 0 is none
    delay,                \* local "delay" of every _reconnect_loop
    consecutive_errors,   \* local counter of every socket_listener
    sock,                 \* state of every socket
    \* ---- observation of the run (history, not program state)
    loops_started,        \* _reconnect_loop threads started so far
    own_attempts,         \* connection attempts each _reconnect_loop has begun
    tenv                  \* events of the environment so far

VARIABLES
    \* ---- the data path of both protocol classes, taken by itself
    xml_buffer,           \* xml_buffer: the text received and not yet parsed
    message,              \* the last command built by a send function
    full_message,         \* that command with its header, as queued or sent
    returned,             \* what the last call of a send function returned
    sends,                \* calls of the send functions so far
    last_rocrail_activity_time,
    \* ---- the throttle of both programs, taken by itself
    speed_samples,        \* AsyncHardwareManager._speed_samples
    samples,              \* PotiController.samples
    poti_speed,           \* main loop of rocrail_controller.py: speed
    loco_dir,             \* rocrail_controller.py: loco_dir
    sending_speed_enabled, \* ControllerStateMachine.sending_speed_enabled
    poti_last_speed,      \* main loop of rocrail_controller.py: last_speed
    \* ---- AsyncControllerState, taken by itself
    wifi_status,          \* _wifi_status
    events,               \* which of the *_changed events are set
    calls,                \* the last two calls made on the object
    got,                  \* what the last getter returned
    \* ---- the LocoList object in full: entries with id and display name
    loco_list,            \* [locomotives, selected_index] of the LocoList
    xml_response,         \* the roster record last given to the LocoList
    locomotives_found,    \* what the extractor returned for that record
    applied,              \* times in a row that record has been given
    \* ---- the roster query of the threaded program and the clock
    ticks_ms,             \* what time.ticks_ms() returns now
    locomotive_query_start_time,
    elapsed,              \* milliseconds since the pending query was sent
    rejected              \* handle_data printed "Rejecting large data packet"

lvars == <<locomotives, selected_index>>
pvars == <<speed_samples, samples, poti_speed, loco_dir,
           sending_speed_enabled, poti_last_speed>>
svars == <<wifi_status, events, calls, got>>
fmsg == <<message, full_message, returned, sends, last_rocrail_activity_time,
          pvars, svars>>
rvars == <<loco_list, xml_response, locomotives_found, applied>>
qvars == <<ticks_ms, locomotive_query_start_time, elapsed, rejected>>
fvars == <<xml_buffer, fmsg, rvars, qvars>>
tvars == <<socket_client, running, rocrail_status, reconnect_running,
           reconnect_attempts, reconnect_enabled, socket_lock,
           locomotives_loaded, locomotive_query_pending, tpc, hold, delay,
           consecutive_errors, sock, loops_started, own_attempts, tenv>>
avars == <<speed_enabled, state_rocrail_status, reader, writer, protocol_lock,
           send_queue, queue_event, reconnect_task,
           a_locomotives_loaded, query_pending, current_speed,
           current_direction, current_light, last_speed, inputs, pc, current_task,
           pend, msg, ret, io, conn>>
hst == <<nenv, nframes, nenq, wire, lost, stale, await_zero>>
hvars == <<hst, notif>>
vars == <<lvars, avars, hvars, tvars, fvars>>

(***************************************************************************)
(* Tasks of the asyncio program.                                           *)
(***************************************************************************)
NoTask == <<"none", 0>>
HW == <<"hw", 0>>       \* _hardware_input_task
SPD == <<"spd", 0>>     \* _speed_control_task
MON == <<"mon", 0>>     \* _protocol_monitor_task
Snd(c) == <<"snd", c>>  \* the _send_task created by the connect that opened c
Rcv(c) == <<"rcv", c>>  \* the _receive_task created by the connect that opened c
AR(k) == <<"ar", k>>    \* the k-th _auto_reconnect task
CLN == <<"cln", 0>>     \* run() in its "finally": cleanup()

Conns == 1..MaxConn
SendTasks == {Snd(c) : c \in Conns}
RecvTasks == {Rcv(c) : c \in Conns}
ReconnectTasks == {AR(k) : k \in 1..MaxReconnectTasks}
Tasks == {HW, SPD, MON, CLN} \cup SendTasks \cup RecvTasks \cup ReconnectTasks

NoFrame == [n |-> 0, kind |-> "none", id |-> 0, V |-> 0, dir |-> "true",
            safety |-> FALSE, en |-> FALSE]
NoInputs == [btn_up |-> FALSE, btn_down |-> FALSE, direction |-> FALSE,
             emergency |-> FALSE, light |-> FALSE, speed |-> 0]

\* Number of buttons an input read reports as pressed.
NumPressed(i) ==
    (IF i.btn_up THEN 1 ELSE 0) + (IF i.btn_down THEN 1 ELSE 0)
    + (IF i.direction THEN 1 ELSE 0) + (IF i.emergency THEN 1 ELSE 0)
    + (IF i.light THEN 1 ELSE 0)

\* What AsyncHardwareManager.read_all_inputs can return.
Inputs == {i \in [btn_up : BOOLEAN, btn_down : BOOLEAN, direction : BOOLEAN,
                  emergency : BOOLEAN, light : BOOLEAN, speed : Speeds] :
              NumPressed(i) <= MaxPressed}

(***************************************************************************)
(* LocoList                                                                *)
(***************************************************************************)
\* get_selected_id: the id of the selected locomotive, 0 for None.
get_selected_id ==
    IF Len(locomotives) > 0 /\ 0 <= selected_index
       /\ selected_index < Len(locomotives)
    THEN locomotives[selected_index + 1] ELSE 0

\* select_next: the index after the call; the call returns TRUE iff it differs.
select_next ==
    IF Len(locomotives) <= 1 THEN selected_index
    ELSE (selected_index + 1) % Len(locomotives)

\* select_previous
select_previous ==
    IF Len(locomotives) <= 1 THEN selected_index
    ELSE (selected_index - 1) % Len(locomotives)

IdAt(i) == IF Len(locomotives) > 0 /\ 0 <= i /\ i < Len(locomotives)
           THEN locomotives[i + 1] ELSE 0

Toggle(d) == IF d = "false" THEN "true" ELSE "false"

(***************************************************************************)
(* Cooperative scheduling: a task runs from one suspension point to the    *)
(* next without interleaving.  A task suspended in _protocol_lock.acquire  *)
(* is resumed when the lock is free.                                       *)
(***************************************************************************)
\* Positions at an "async with self._protocol_lock".
LockLabels == {"hw_up_send", "hw_down_send", "hw_dir_send", "hw_emg_send",
               "hw_light_send", "spd_send", "ar_query_send", "snd_pop",
               "disc", "conn", "ar_check", "mon_check"}

LockIgnored(t) == TRUE

\* The lock can be entered now.  (Which of several suspended acquirers enters
\* next is left open: the program does not depend on the order.)
LockAvail(t) == protocol_lock = NoTask

\* A task the event loop can resume: it exists, it is not suspended on the
\* cleared queue event, and it is not suspended on the held lock.
Ready(t) ==
    /\ pc[t] \notin {"none", "done"}
    /\ pc[t] = "snd_wait" => queue_event
    /\ pc[t] \in LockLabels => LockAvail(t)

Runs(t) == current_task = t \/ (current_task = NoTask /\ Ready(t))

\* Lock.release
Release == protocol_lock' = NoTask

\* Groups of variables, for the UNCHANGED clauses.
ctl == <<current_speed, current_direction, current_light, last_speed, inputs>>
net == <<reader, writer, conn>>
lck == <<protocol_lock>>
que == <<send_queue, queue_event>>
rost == <<a_locomotives_loaded, query_pending>>
loc == <<pend, msg, ret, io>>
obs == <<stale, await_zero>>

\* Lock.acquire on a held lock: the task is suspended.
WaitLock(t) ==
    /\ Runs(t)
    /\ pc[t] \in LockLabels
    /\ current_task = t
    /\ ~LockAvail(t)
    /\ current_task' = NoTask
    /\ notif' = FALSE
    /\ UNCHANGED <<lvars, hst, ctl, net, que, rost, loc, speed_enabled,
                   state_rocrail_status, protocol_lock, reconnect_task, pc>>
    /\ UNCHANGED <<tvars, fvars>>

(***************************************************************************)
(* AsyncRocrailProtocol: queueing a message                                *)
(***************************************************************************)
\* The message send_speed_direction builds for the selected locomotive.
SpeedFrame(id, speed, direction, is_safety) ==
    [n |-> 0, kind |-> "lc", id |-> id, V |-> speed, dir |-> direction,
     safety |-> is_safety, en |-> FALSE]

\* The message send_light_command builds.
LightFrame(id, light) ==
    [n |-> 0, kind |-> "fn", id |-> id, V |-> 0, dir |-> light,
     safety |-> FALSE, en |-> FALSE]

\* The message query_locomotives builds.
QueryFrame ==
    [n |-> 0, kind |-> "model", id |-> 0, V |-> 0, dir |-> "true",
     safety |-> FALSE, en |-> FALSE]

\* Positions inside _send_message / query_locomotives, at the lock.
SendLabels == {"hw_up_send", "hw_down_send", "hw_dir_send", "hw_emg_send",
               "hw_light_send", "spd_send", "ar_query_send"}

\* The "if inputs[...]" blocks of _hardware_input_task in program order; the
\* position after the last one is the assignment of current_speed.
HwOrder == <<"hw_up", "hw_down", "hw_dir", "hw_emg", "hw_light", "hw_end">>

\* The condition of the block at position l for the input read i.
Pressed(i, l) ==
    CASE l = "hw_up" -> i.btn_up
      [] l = "hw_down" -> i.btn_down
      [] l = "hw_dir" -> i.direction
      [] l = "hw_emg" -> i.emergency
      [] l = "hw_light" -> i.light
      [] OTHER -> TRUE

\* The first block from position k on whose condition holds: the blocks whose
\* button is not pressed do nothing.
HwNext(i, k) ==
    HwOrder[CHOOSE j \in k..6 : /\ Pressed(i, HwOrder[j])
                                /\ \A m \in k..(j - 1) : ~Pressed(i, HwOrder[m])]

\* Where the caller continues when _send_message has returned.
AfterSend(l) ==
    CASE l = "hw_up_send" -> HwNext(inputs, 2)
      [] l = "hw_down_send" -> HwNext(inputs, 3)
      [] l = "hw_dir_send" -> HwNext(inputs, 4)
      [] l = "hw_emg_send" -> HwNext(inputs, 5)
      [] l = "hw_light_send" -> "hw_end"
      [] l = "spd_send" -> "spd_sleep"
      [] l = "ar_query_send" -> "done"

\* The frame as it enters the queue; n and en record the order of the append and
\* the value of _speed_enabled at the append.
Stamped(f) == [f EXCEPT !.n = nenq + 1, !.en = speed_enabled]

\* _send_message (and the same block of query_locomotives): under the lock,
\* append the framed message and set the event.  _speed_control_task then
\* assigns last_speed and sleeps; _auto_reconnect ends after its query.
send_message(t) ==
    /\ Runs(t)
    /\ pc[t] \in SendLabels
    /\ LockAvail(t)
    /\ send_queue' = Append(send_queue, Stamped(pend[t]))
    /\ nenq' = nenq + 1
    /\ queue_event' = TRUE
    /\ Release
    /\ pend' = [pend EXCEPT ![t] = NoFrame]
    /\ pc' = [pc EXCEPT ![t] = AfterSend(pc[t])]
    /\ last_speed' = IF pc[t] = "spd_send" THEN current_speed ELSE last_speed
    /\ current_task' = IF pc[t] \in {"spd_send", "ar_query_send"} THEN NoTask ELSE t
    /\ notif' = FALSE
    /\ UNCHANGED <<lvars, net, rost, obs, speed_enabled, state_rocrail_status,
                   reconnect_task, current_speed, current_direction,
                   current_light, inputs, msg, ret, io, nframes, wire, lost, nenv>>
    /\ UNCHANGED <<tvars, fvars>>

(***************************************************************************)
(* LocomotiveControllerAsync._hardware_input_task                          *)
(***************************************************************************)
\* What the user did since the last read: buttons pressed, throttle moved.
EventsOf(i) == NumPressed(i) + (IF i.speed # current_speed THEN 1 ELSE 0)

\* inputs = await self.hardware.read_all_inputs().  With no button pressed
\* the rest of the iteration is the assignment of current_speed and the sleep.
HwRead ==
    /\ Runs(HW)
    /\ pc[HW] = "hw_sleep"
    /\ \E i \in Inputs :
          /\ nframes + NumPressed(i) <= MaxFrames
          /\ nenv + EventsOf(i) <= MaxEnvEvents
          /\ nenv' = nenv + EventsOf(i)
          /\ IF NumPressed(i) = 0
             THEN /\ current_speed' = i.speed
                  /\ stale' = FALSE
                  /\ current_task' = NoTask
                  /\ UNCHANGED <<inputs, pc>>
             ELSE /\ inputs' = i
                  /\ pc' = [pc EXCEPT ![HW] = HwNext(i, 1)]
                  /\ current_task' = HW
                  /\ UNCHANGED <<current_speed, stale>>
    /\ notif' = FALSE
    /\ UNCHANGED <<lvars, net, lck, que, rost, loc, speed_enabled,
                   state_rocrail_status, reconnect_task, current_direction,
                   current_light, last_speed, nframes, nenq, wire, lost, await_zero>>
    /\ UNCHANGED <<tvars, fvars>>

\* A zero-speed message for the context before the change.
StopFramePrevious(new_index, new_dir) ==
    [n |-> 0, kind |-> "lc", id |-> get_selected_id, V |-> 0,
     dir |-> current_direction, safety |-> TRUE, en |-> FALSE]

\* send_speed_direction(0, self.current_direction) as the task calls it right
\* after a context change: the message names the locomotive selected after the
\* change and carries the direction after the change.
StopFrame(new_index, new_dir) == SpeedFrame(IdAt(new_index), 0, new_dir, TRUE)

\* One context change of the task: the selection or the direction is changed
\* (new_index, new_dir), signal_*() disables speed sending, and
\* send_speed_direction builds its message (nothing is sent when no locomotive
\* is selected).
ContextChange(new_index, new_dir, send_label, next_label) ==
    /\ selected_index' = new_index
    /\ current_direction' = new_dir
    /\ speed_enabled' = FALSE
    /\ await_zero' = TRUE
    /\ stale' = TRUE
    /\ IF IdAt(new_index) # 0
       THEN /\ pend' = [pend EXCEPT ![HW] = StopFrame(new_index, new_dir)]
            /\ nframes' = nframes + 1
            /\ pc' = [pc EXCEPT ![HW] = send_label]
       ELSE /\ pc' = [pc EXCEPT ![HW] = next_label]
            /\ UNCHANGED <<pend, nframes>>
    /\ current_task' = HW
    /\ notif' = FALSE
    /\ UNCHANGED <<locomotives, net, lck, que, rost, msg, ret, io,
                   state_rocrail_status, reconnect_task, current_speed,
                   current_light, last_speed, inputs, nenq, wire, lost, nenv>>

HwSkip(next_label) ==
    /\ pc' = [pc EXCEPT ![HW] = next_label]
    /\ current_task' = HW
    /\ notif' = FALSE
    /\ UNCHANGED <<lvars, hst, ctl, net, lck, que, rost, loc, speed_enabled,
                   state_rocrail_status, reconnect_task>>

\* if inputs['btn_up']: if self.loco_list.select_next(): ...
HwUp ==
    /\ Runs(HW)
    /\ pc[HW] = "hw_up"
    /\ IF inputs.btn_up /\ select_next # selected_index
       THEN ContextChange(select_next, current_direction,
                          "hw_up_send", HwNext(inputs, 2))
       ELSE HwSkip(HwNext(inputs, 2))
    /\ UNCHANGED <<tvars, fvars>>

\* if inputs['btn_down']: if self.loco_list.select_previous(): ...
HwDown ==
    /\ Runs(HW)
    /\ pc[HW] = "hw_down"
    /\ IF inputs.btn_down /\ select_previous # selected_index
       THEN ContextChange(select_previous, current_direction,
                          "hw_down_send", HwNext(inputs, 3))
       ELSE HwSkip(HwNext(inputs, 3))
    /\ UNCHANGED <<tvars, fvars>>

\* if inputs['direction']: toggle, signal_direction_changed, send 0
HwDir ==
    /\ Runs(HW)
    /\ pc[HW] = "hw_dir"
    /\ IF inputs.direction
       THEN ContextChange(selected_index, Toggle(current_direction),
                          "hw_dir_send", HwNext(inputs, 4))
       ELSE HwSkip(HwNext(inputs, 4))
    /\ UNCHANGED <<tvars, fvars>>

\* if inputs['emergency']: signal_emergency_stop, send 0
HwEmg ==
    /\ Runs(HW)
    /\ pc[HW] = "hw_emg"
    /\ IF inputs.emergency
       THEN ContextChange(selected_index, current_direction,
                          "hw_emg_send", HwNext(inputs, 5))
       ELSE HwSkip(HwNext(inputs, 5))
    /\ UNCHANGED <<tvars, fvars>>

\* if inputs['light']: toggle current_light, send_light_command
HwLight ==
    /\ Runs(HW)
    /\ pc[HW] = "hw_light"
    /\ IF inputs.light
       THEN /\ current_light' = Toggle(current_light)
            /\ IF get_selected_id # 0
               THEN /\ pend' = [pend EXCEPT ![HW] =
                          LightFrame(get_selected_id, Toggle(current_light))]
                    /\ nframes' = nframes + 1
                    /\ pc' = [pc EXCEPT ![HW] = "hw_light_send"]
               ELSE /\ pc' = [pc EXCEPT ![HW] = "hw_end"]
                    /\ UNCHANGED <<pend, nframes>>
            /\ current_task' = HW
            /\ notif' = FALSE
            /\ UNCHANGED <<lvars, net, lck, que, rost, obs, msg, ret, io,
                           speed_enabled, state_rocrail_status, reconnect_task,
                           current_speed, current_direction, last_speed,
                           inputs, nenq, wire, lost, nenv>>
       ELSE HwSkip("hw_end")
    /\ UNCHANGED <<tvars, fvars>>

\* self.current_speed = inputs['speed'], then asyncio.sleep
HwEnd ==
    /\ Runs(HW)
    /\ pc[HW] = "hw_end"
    /\ current_speed' = inputs.speed
    /\ stale' = FALSE
    /\ inputs' = NoInputs
    /\ pc' = [pc EXCEPT ![HW] = "hw_sleep"]
    /\ current_task' = NoTask
    /\ notif' = FALSE
    /\ UNCHANGED <<lvars, net, lck, que, rost, loc, speed_enabled,
                   state_rocrail_status, reconnect_task, current_direction,
                   current_light, last_speed, nframes, nenq, wire, lost, await_zero, nenv>>
    /\ UNCHANGED <<tvars, fvars>>

(***************************************************************************)
(* LocomotiveControllerAsync._speed_control_task                           *)
(***************************************************************************)
PotiNearZero(speed) == speed < 13

\* The interlock check: may speed sending be enabled again for this sample?
PotiAtZero(speed) == speed = 0

\* One pass of the loop body up to the first suspension.
SpeedControl ==
    /\ Runs(SPD)
    /\ pc[SPD] = "spd_sleep"
    /\ IF speed_enabled
       THEN IF current_speed # last_speed
            THEN IF get_selected_id # 0
                 THEN /\ nframes < MaxFrames
                      /\ pend' = [pend EXCEPT ![SPD] =
                            SpeedFrame(get_selected_id, current_speed,
                                       current_direction, FALSE)]
                      /\ nframes' = nframes + 1
                      /\ pc' = [pc EXCEPT ![SPD] = "spd_send"]
                      /\ current_task' = SPD
                      /\ UNCHANGED <<last_speed, speed_enabled, await_zero>>
                 ELSE /\ last_speed' = current_speed
                      /\ current_task' = NoTask
                      /\ UNCHANGED <<pend, nframes, pc, speed_enabled,
                                     await_zero>>
            ELSE /\ current_task' = NoTask
                 /\ UNCHANGED <<pend, nframes, pc, last_speed, speed_enabled,
                                await_zero>>
       ELSE /\ speed_enabled' = PotiAtZero(current_speed)
            /\ await_zero' = IF PotiAtZero(current_speed) /\ ~stale
                             THEN FALSE ELSE await_zero
            /\ current_task' = NoTask
            /\ UNCHANGED <<pend, nframes, pc, last_speed>>
    /\ notif' = FALSE
    /\ UNCHANGED <<lvars, net, lck, que, rost, msg, ret, io,
                   state_rocrail_status, reconnect_task, current_speed,
                   current_direction, current_light, inputs, nenq, wire, lost, stale, nenv>>
    /\ UNCHANGED <<tvars, fvars>>

(***************************************************************************)
(* AsyncRocrailProtocol: reconnection trigger                              *)
(***************************************************************************)
\* A guard that lets every notification create a task.
AlwaysReconnect == TRUE

\* "if not self.reconnect_task or self.reconnect_task.done()": the guard at
\* every place that creates the _auto_reconnect task.
NeedsReconnect == reconnect_task = 0 \/ pc[AR(reconnect_task)] = "done"

\* The model creates at most MaxReconnectTasks tasks.
CanTrigger == NeedsReconnect => reconnect_task < MaxReconnectTasks

\* self.reconnect_task = asyncio.create_task(self._auto_reconnect()), guarded.
\* p is the position map the calling step leaves.
TriggerPc(p) ==
    IF NeedsReconnect THEN [p EXCEPT ![AR(reconnect_task + 1)] = "ar_check"] ELSE p

TriggerTask == IF NeedsReconnect THEN reconnect_task + 1 ELSE reconnect_task

(***************************************************************************)
(* AsyncRocrailProtocol.disconnect                                         *)
(***************************************************************************)
\* async with self._protocol_lock: if self.writer: close, await wait_closed
DiscEnter(t) ==
    /\ Runs(t)
    /\ pc[t] = "disc"
    /\ LockAvail(t)
    /\ IF writer # 0
       THEN /\ conn' = [conn EXCEPT ![writer] = "closed"]
            /\ protocol_lock' = t
            /\ pc' = [pc EXCEPT ![t] = "disc_closing"]
            /\ current_task' = NoTask
            /\ UNCHANGED <<reader, writer, state_rocrail_status,
                           ret>>
       ELSE /\ reader' = 0
            /\ writer' = 0
            /\ state_rocrail_status' = "disconnected"
            /\ Release
            /\ pc' = [pc EXCEPT ![t] = ret[t]]
            /\ ret' = [ret EXCEPT ![t] = "none"]
            /\ current_task' = t
            /\ UNCHANGED conn
    /\ notif' = FALSE
    /\ UNCHANGED <<lvars, hst, ctl, que, rost, pend, msg, io, speed_enabled,
                   reconnect_task>>
    /\ UNCHANGED <<tvars, fvars>>

\* wait_closed has returned: reader = writer = None, status "disconnected"
DiscClosed(t) ==
    /\ Runs(t)
    /\ pc[t] = "disc_closing"
    /\ reader' = 0
    /\ writer' = 0
    /\ state_rocrail_status' = "disconnected"
    /\ Release
    /\ pc' = [pc EXCEPT ![t] = ret[t]]
    /\ ret' = [ret EXCEPT ![t] = "none"]
    /\ current_task' = t
    /\ notif' = FALSE
    /\ UNCHANGED <<lvars, hst, ctl, que, rost, pend, msg, io, speed_enabled,
                   reconnect_task, conn>>
    /\ UNCHANGED <<tvars, fvars>>

(***************************************************************************)
(* AsyncRocrailProtocol._send_task                                         *)
(***************************************************************************)
\* await self._queue_event.wait() returns
SndWake(t) ==
    /\ t \in SendTasks
    /\ Runs(t)
    /\ pc[t] = "snd_wait"
    /\ pc' = [pc EXCEPT ![t] = "snd_pop"]
    /\ current_task' = t
    /\ notif' = FALSE
    /\ UNCHANGED <<lvars, hst, ctl, net, lck, que, rost, loc, speed_enabled,
                   state_rocrail_status, reconnect_task>>
    /\ UNCHANGED <<tvars, fvars>>

\* What the run records of a written frame.
OnWire(f) == [n |-> f.n, kind |-> f.kind, safety |-> f.safety]

\* The number of a frame that is not written, if it is a safety frame.
SafetyNumber(f) == IF f.safety THEN {f.n} ELSE {}

\* Taking the newest message instead of the oldest.
PopLast(q) == Len(q)

\* The message the task takes from the queue: self._send_queue.pop(0)
PopIndex(q) == 1

Without(q, i) == [j \in 1..(Len(q) - 1) |-> IF j < i THEN q[j] ELSE q[j + 1]]

\* One pass of the inner loop up to its suspension: pop under the lock, then
\* either "Cannot send - no connection" (the message is dropped, the status
\* becomes lost, reconnection is triggered) or writer.write(message) followed
\* by await writer.drain().
SndPop(t) ==
    /\ t \in SendTasks
    /\ Runs(t)
    /\ pc[t] = "snd_pop"
    /\ LockAvail(t)
    /\ Release
    /\ IF send_queue = <<>>
       THEN /\ queue_event' = FALSE
            /\ pc' = [pc EXCEPT ![t] = "snd_wait"]
            /\ current_task' = NoTask
            /\ notif' = FALSE
            /\ UNCHANGED <<send_queue, msg, io, wire, lost, state_rocrail_status,
                           reconnect_task>>
       ELSE /\ send_queue' = Without(send_queue, PopIndex(send_queue))
            /\ UNCHANGED queue_event
            /\ IF writer = 0
               THEN /\ CanTrigger
                    /\ state_rocrail_status' = "lost"
                    /\ reconnect_task' = TriggerTask
                    /\ pc' = TriggerPc(pc)
                    /\ notif' = TRUE
                    /\ current_task' = t
                    /\ lost' = lost \cup SafetyNumber(send_queue[PopIndex(send_queue)])
                    /\ UNCHANGED <<msg, io, wire>>
               ELSE /\ wire' = Append(wire, OnWire(send_queue[PopIndex(send_queue)]))
                    /\ UNCHANGED lost
                    /\ msg' = [msg EXCEPT ![t] = send_queue[PopIndex(send_queue)]]
                    /\ io' = [io EXCEPT ![t] = IF conn[writer] = "closed"
                                                THEN 0 ELSE writer]
                    /\ pc' = [pc EXCEPT ![t] = "snd_drain"]
                    /\ current_task' = NoTask
                    /\ notif' = FALSE
                    /\ UNCHANGED <<state_rocrail_status, reconnect_task>>
    /\ UNCHANGED <<lvars, ctl, net, rost, obs, pend, ret, speed_enabled,
                   nframes, nenq, nenv>>
    /\ UNCHANGED <<tvars, fvars>>

\* Outcomes of writer.write(message) followed by await writer.drain(), which
\* always suspends the task.  c is the transport the message was handed to, 0
\* when the transport was already closed at the write.  A message handed to a
\* live transport can be reported as sent whatever happens to the transport
\* while the task is suspended.
WriteOutcomes(c) ==
    IF c = 0 THEN {"enotconn", "oserror"}
    ELSE IF conn[c] = "open" THEN {"ok"}
    ELSE {"ok", "enotconn", "oserror"}

NotWritten(w, m) == SelectSeq(w, LAMBDA f : f.n # m.n)

\* await self.writer.drain() returns or raises.
SndDrained(t) ==
    /\ t \in SendTasks
    /\ Runs(t)
    /\ pc[t] = "snd_drain"
    /\ \E o \in WriteOutcomes(io[t]) :
          CASE o = "ok" ->
                 /\ state_rocrail_status' = "connected"
                 /\ pc' = [pc EXCEPT ![t] = "snd_pop"]
                 /\ UNCHANGED <<wire, lost, ret>>
            [] o = "enotconn" ->
                 /\ state_rocrail_status' = "lost"
                 /\ wire' = NotWritten(wire, msg[t])
                 /\ lost' = lost \cup SafetyNumber(msg[t])
                 /\ ret' = [ret EXCEPT ![t] = "snd_trig"]
                 /\ pc' = [pc EXCEPT ![t] = "disc"]
            [] o = "oserror" ->
                 /\ state_rocrail_status' = "error"
                 /\ wire' = NotWritten(wire, msg[t])
                 /\ lost' = lost \cup SafetyNumber(msg[t])
                 /\ pc' = [pc EXCEPT ![t] = "snd_pop"]
                 /\ UNCHANGED ret
    /\ msg' = [msg EXCEPT ![t] = NoFrame]
    /\ io' = [io EXCEPT ![t] = 0]
    /\ current_task' = t
    /\ notif' = FALSE
    /\ UNCHANGED <<lvars, ctl, net, lck, que, rost, obs, pend, speed_enabled,
                   reconnect_task, nframes, nenq, nenv>>
    /\ UNCHANGED <<tvars, fvars>>

\* after "await self.disconnect()": trigger immediate reconnection
SndTrigger(t) ==
    /\ t \in SendTasks
    /\ Runs(t)
    /\ pc[t] = "snd_trig"
    /\ CanTrigger
    /\ reconnect_task' = TriggerTask
    /\ pc' = TriggerPc([pc EXCEPT ![t] = "snd_pop"])
    /\ notif' = TRUE
    /\ current_task' = t
    /\ UNCHANGED <<lvars, ctl, net, lck, que, rost, obs, loc, speed_enabled,
                   state_rocrail_status, nframes, nenq, wire, lost, nenv>>
    /\ UNCHANGED <<tvars, fvars>>

(***************************************************************************)
(* AsyncRocrailProtocol._receive_task                                      *)
(***************************************************************************)
\* Top of the loop: sleep while there is no reader, else await reader.read().
RcvLoop(t) ==
    /\ t \in RecvTasks
    /\ Runs(t)
    /\ pc[t] = "rcv_loop"
    /\ IF reader = 0
       THEN /\ current_task = t
            /\ UNCHANGED <<pc, io>>
       ELSE /\ io' = [io EXCEPT ![t] = reader]
            /\ pc' = [pc EXCEPT ![t] = "rcv_reading"]
    /\ current_task' = NoTask
    /\ notif' = FALSE
    /\ UNCHANGED <<lvars, hst, ctl, net, lck, que, rost, pend, msg, ret,
                   speed_enabled, state_rocrail_status, reconnect_task>>
    /\ UNCHANGED <<tvars, fvars>>

\* Outcomes of reader.read(4096) on a transport in state s.
ReadOutcomes(s) ==
    CASE s = "open" -> {"data", "roster"}
      [] s = "peer_closed" -> {"empty", "enotconn"}
      [] OTHER -> {"empty", "enotconn", "oserror"}

\* _handle_received_data for a packet that completes a roster record r
\* (_process_locomotive_data commits it through
\* LocoList.update_from_rocrail_response: clear, add, sort, selection 0).
HandleRoster(r) ==
    IF a_locomotives_loaded
    THEN UNCHANGED <<lvars, rost>>
    ELSE /\ locomotives' = r
         /\ selected_index' = 0
         /\ a_locomotives_loaded' = TRUE
         /\ query_pending' = FALSE

\* where the task goes on after "await self.disconnect()": in the branch
\* "if not data" (line 194) or in the branch of ENOTCONN (line 208)
Handler(o) == IF o = "empty" THEN "rcv_trig" ELSE "rcv_trig_err"

\* reader.read() returns or raises.
RcvRead(t) ==
    /\ t \in RecvTasks
    /\ Runs(t)
    /\ pc[t] = "rcv_reading"
    /\ \E o \in ReadOutcomes(conn[io[t]]) :
          CASE o = "data" ->
                 /\ state_rocrail_status' = "connected"
                 /\ pc' = [pc EXCEPT ![t] = "rcv_loop"]
                 /\ current_task' = t
                 /\ UNCHANGED <<lvars, rost, ret>>
            [] o = "roster" ->
                 /\ state_rocrail_status' = "connected"
                 /\ \E r \in ServerRosters : HandleRoster(r)
                 /\ pc' = [pc EXCEPT ![t] = "rcv_loop"]
                 /\ current_task' = t
                 /\ UNCHANGED ret
            [] o \in {"empty", "enotconn"} ->
                 /\ state_rocrail_status' = "lost"
                 /\ ret' = [ret EXCEPT ![t] = Handler(o)]
                 /\ pc' = [pc EXCEPT ![t] = "disc"]
                 /\ current_task' = t
                 /\ UNCHANGED <<lvars, rost>>
            [] o = "oserror" ->
                 /\ pc' = [pc EXCEPT ![t] = "rcv_loop"]
                 /\ current_task' = NoTask
                 /\ UNCHANGED <<lvars, rost, ret, state_rocrail_status>>
    /\ io' = [io EXCEPT ![t] = 0]
    /\ notif' = FALSE
    /\ UNCHANGED <<hst, ctl, net, lck, que, pend, msg, speed_enabled,
                   reconnect_task>>
    /\ UNCHANGED <<tvars, fvars>>

\* after "await self.disconnect()": trigger reconnection, break
RcvTrigger(t) ==
    /\ t \in RecvTasks
    /\ Runs(t)
    /\ pc[t] \in {"rcv_trig", "rcv_trig_err"}
    /\ CanTrigger
    /\ reconnect_task' = TriggerTask
    /\ pc' = TriggerPc([pc EXCEPT ![t] = "done"])
    /\ notif' = TRUE
    /\ current_task' = NoTask
    /\ UNCHANGED <<lvars, ctl, net, lck, que, rost, obs, loc, speed_enabled,
                   state_rocrail_status, nframes, nenq, wire, lost, nenv>>
    /\ UNCHANGED <<tvars, fvars>>

(***************************************************************************)
(* AsyncRocrailProtocol._auto_reconnect and connect                        *)
(***************************************************************************)
\* is_connected(): writer and reader are not None
is_connected == writer # 0 /\ reader # 0

\* if await self.is_connected(): break; else status "reconnecting", sleep
ArCheck(t) ==
    /\ t \in ReconnectTasks
    /\ Runs(t)
    /\ pc[t] = "ar_check"
    /\ LockAvail(t)
    /\ Release
    /\ IF is_connected
       THEN /\ pc' = [pc EXCEPT ![t] = "done"]
            /\ UNCHANGED state_rocrail_status
       ELSE /\ state_rocrail_status' = "reconnecting"
            /\ pc' = [pc EXCEPT ![t] = "ar_sleep1"]
    /\ current_task' = NoTask
    /\ notif' = FALSE
    /\ UNCHANGED <<lvars, hst, ctl, net, que, rost, loc, speed_enabled,
                   reconnect_task>>
    /\ UNCHANGED <<tvars, fvars>>

\* the delay is over: await self.disconnect()
ArDisconnect(t) ==
    /\ t \in ReconnectTasks
    /\ Runs(t)
    /\ pc[t] = "ar_sleep1"
    /\ ret' = [ret EXCEPT ![t] = "ar_sleep2"]
    /\ pc' = [pc EXCEPT ![t] = "disc"]
    /\ current_task' = t
    /\ notif' = FALSE
    /\ UNCHANGED <<lvars, hst, ctl, net, lck, que, rost, pend, msg, io,
                   speed_enabled, state_rocrail_status, reconnect_task>>
    /\ UNCHANGED <<tvars, fvars>>

\* await asyncio.sleep(0.5)
ArSleep(t) ==
    /\ t \in ReconnectTasks
    /\ Runs(t)
    /\ pc[t] = "ar_sleep2"
    /\ pc' = [pc EXCEPT ![t] = "ar_conn"]
    /\ current_task' = NoTask
    /\ notif' = FALSE
    /\ UNCHANGED <<lvars, hst, ctl, net, lck, que, rost, loc, speed_enabled,
                   state_rocrail_status, reconnect_task>>
    /\ UNCHANGED <<tvars, fvars>>

\* connect(): status "connecting", then the lock
ArConnect(t) ==
    /\ t \in ReconnectTasks
    /\ Runs(t)
    /\ pc[t] = "ar_conn"
    /\ state_rocrail_status' = "connecting"
    /\ pc' = [pc EXCEPT ![t] = "conn"]
    /\ current_task' = t
    /\ notif' = FALSE
    /\ UNCHANGED <<lvars, hst, ctl, net, lck, que, rost, loc, speed_enabled,
                   reconnect_task>>
    /\ UNCHANGED <<tvars, fvars>>

\* connect(): under the lock, await asyncio.open_connection(host, port)
ConnEnter(t) ==
    /\ t \in ReconnectTasks
    /\ Runs(t)
    /\ pc[t] = "conn"
    /\ LockAvail(t)
    /\ protocol_lock' = t
    /\ pc' = [pc EXCEPT ![t] = "conn_opening"]
    /\ current_task' = NoTask
    /\ notif' = FALSE
    /\ UNCHANGED <<lvars, hst, ctl, net, que, rost, loc, speed_enabled,
                   state_rocrail_status, reconnect_task>>
    /\ UNCHANGED <<tvars, fvars>>

\* The transports not yet used in this run.
FreshConns == {c \in Conns : conn[c] = "unused"}

AfterOpenedQuery == "ar_sleep3"

\* _auto_reconnect after connect() returned True: "if not
\* self.locomotives_loaded": sleep and query_locomotives, then "break"
AfterOpened == IF a_locomotives_loaded THEN "done" ELSE "ar_sleep3"

\* open_connection succeeded with transport c: reader and writer are set, the
\* status is "connected", a _receive_task and a _send_task are created; back in
\* _auto_reconnect the loop ends, after a roster query if none is loaded.
ConnOpened(t) ==
    /\ t \in ReconnectTasks
    /\ Runs(t)
    /\ pc[t] = "conn_opening"
    /\ \E c \in FreshConns :
          /\ \A d \in FreshConns : c <= d
          /\ conn' = [conn EXCEPT ![c] = "open"]
          /\ reader' = c
          /\ writer' = c
          /\ pc' = [pc EXCEPT ![Rcv(c)] = "rcv_loop", ![Snd(c)] = "snd_wait",
                              ![t] = AfterOpened]
    /\ state_rocrail_status' = "connected"
    /\ Release
    /\ current_task' = NoTask
    /\ notif' = FALSE
    /\ UNCHANGED <<lvars, hst, ctl, que, rost, loc, speed_enabled,
                   reconnect_task>>
    /\ UNCHANGED <<tvars, fvars>>

\* open_connection timed out or raised: status "failed", attempt += 1
ConnFailed(t) ==
    /\ t \in ReconnectTasks
    /\ Runs(t)
    /\ pc[t] = "conn_opening"
    /\ state_rocrail_status' = "failed"
    /\ Release
    /\ pc' = [pc EXCEPT ![t] = "ar_check"]
    /\ current_task' = t
    /\ notif' = FALSE
    /\ UNCHANGED <<lvars, hst, ctl, net, que, rost, loc, speed_enabled,
                   reconnect_task>>
    /\ UNCHANGED <<tvars, fvars>>

\* after asyncio.sleep(1): query_locomotives() sets query_pending and builds
\* the roster query
ArQuery(t) ==
    /\ t \in ReconnectTasks
    /\ Runs(t)
    /\ pc[t] = "ar_sleep3"
    /\ nframes < MaxFrames
    /\ query_pending' = TRUE
    /\ pend' = [pend EXCEPT ![t] = QueryFrame]
    /\ nframes' = nframes + 1
    /\ pc' = [pc EXCEPT ![t] = "ar_query_send"]
    /\ current_task' = t
    /\ notif' = FALSE
    /\ UNCHANGED <<lvars, ctl, net, lck, que, obs, msg, ret, io, speed_enabled,
                   state_rocrail_status, reconnect_task, a_locomotives_loaded,
                   nenq, wire, lost, nenv>>
    /\ UNCHANGED <<tvars, fvars>>

(***************************************************************************)
(* LocomotiveControllerAsync._protocol_monitor_task                        *)
(***************************************************************************)
MonCheck ==
    /\ Runs(MON)
    /\ pc[MON] = "mon_check"
    /\ LockAvail(MON)
    /\ Release
    /\ IF ~is_connected
       THEN IF state_rocrail_status \notin {"reconnecting", "connecting"}
            THEN /\ CanTrigger
                 /\ state_rocrail_status' = "reconnecting"
                 /\ reconnect_task' = TriggerTask
                 /\ pc' = TriggerPc(pc)
                 /\ notif' = TRUE
            ELSE notif' = FALSE /\ UNCHANGED <<state_rocrail_status, reconnect_task, pc>>
       ELSE /\ state_rocrail_status' =
                  IF state_rocrail_status \notin {"connected", "connecting"}
                  THEN "connected" ELSE state_rocrail_status
            /\ notif' = FALSE
            /\ UNCHANGED <<reconnect_task, pc>>
    /\ current_task' = NoTask
    /\ UNCHANGED <<lvars, ctl, net, que, rost, obs, loc, speed_enabled,
                   nframes, nenq, wire, lost, nenv>>
    /\ UNCHANGED <<tvars, fvars>>

(***************************************************************************)
(* The server                                                              *)
(***************************************************************************)
\* The peer closes a transport.
ServerClose(c) ==
    /\ current_task = NoTask
    /\ c <= MaxCloses
    /\ conn[c] = "open"
    /\ nenv < MaxEnvEvents
    /\ nenv' = nenv + 1
    /\ conn' = [conn EXCEPT ![c] = "peer_closed"]
    /\ notif' = FALSE
    /\ UNCHANGED <<lvars, nframes, nenq, wire, lost, obs, ctl, lck, que, rost, loc, speed_enabled,
                   state_rocrail_status, reconnect_task, reader, writer, pc,
                   current_task>>
    /\ UNCHANGED <<tvars, fvars>>

(***************************************************************************)
(* The asyncio program after initialize() and start_tasks(), once the      *)
(* start-up traffic is out: connected on transport 1, every task created,  *)
(* the roster query of _initialize_locomotives and the first report of     *)
(* _speed_control_task (throttle at zero, last_speed = -1) written, the    *)
(* roster answer still outstanding.                                        *)
(***************************************************************************)
\* Frames of the start-up traffic.
StartupFrames == 2

InitAsync ==
    /\ locomotives \in FileRosters
    /\ selected_index = 0
    /\ speed_enabled = TRUE
    /\ state_rocrail_status = "connected"
    /\ reader = 1
    /\ writer = 1
    /\ conn = [c \in Conns |-> IF c = 1 THEN "open" ELSE "unused"]
    /\ protocol_lock = NoTask
    /\ send_queue = <<>>
    /\ queue_event = FALSE
    /\ reconnect_task = 0
    /\ a_locomotives_loaded = FALSE
    /\ query_pending = TRUE
    /\ current_speed = 0
    /\ current_direction = "true"
    /\ current_light = "false"
    /\ last_speed = 0
    /\ inputs = NoInputs
    /\ pc = [t \in Tasks |->
               CASE t = HW -> "hw_sleep"
                 [] t = SPD -> "spd_sleep"
                 [] t = MON -> "mon_check"
                 [] t = Rcv(1) -> "rcv_loop"
                 [] t = Snd(1) -> "snd_wait"
                 [] OTHER -> "none"]
    /\ current_task = NoTask
    /\ pend = [t \in Tasks |-> NoFrame]
    /\ msg = [t \in Tasks |-> NoFrame]
    /\ ret = [t \in Tasks |-> "none"]
    /\ io = [t \in Tasks |-> 0]
    /\ nenv = 0
    /\ nframes = StartupFrames
    /\ nenq = StartupFrames
    /\ wire = <<OnWire([QueryFrame EXCEPT !.n = 1]),
                OnWire([SpeedFrame(get_selected_id, 0, "true", FALSE) EXCEPT !.n = 2])>>
    /\ lost = {}
    /\ stale = FALSE
    /\ await_zero = FALSE
    /\ notif = FALSE

\* the tasks of the protocol, the monitor and the server
NextProtocol ==
    \/ MonCheck
    \/ \E t \in Tasks :
          \/ WaitLock(t) \/ send_message(t)
          \/ DiscEnter(t) \/ DiscClosed(t)
          \/ SndWake(t) \/ SndPop(t) \/ SndDrained(t) \/ SndTrigger(t)
          \/ RcvLoop(t) \/ RcvRead(t) \/ RcvTrigger(t)
          \/ ArCheck(t) \/ ArDisconnect(t) \/ ArSleep(t) \/ ArConnect(t)
          \/ ConnEnter(t) \/ ConnOpened(t) \/ ConnFailed(t) \/ ArQuery(t)
    \/ \E c \in Conns : ServerClose(c)

NextAsync ==
    \/ HwRead \/ HwUp \/ HwDown \/ HwDir \/ HwEmg \/ HwLight \/ HwEnd
    \/ SpeedControl
    \/ NextProtocol

(***************************************************************************)
(* LocomotiveControllerAsync.cleanup: run() reaches its "finally" (the     *)
(* program is interrupted or its loop fails) while the tasks are           *)
(* suspended.  cleanup cancels the tasks of self.tasks one after the       *)
(* other, awaiting each, then awaits protocol.disconnect(); nothing        *)
(* cancels the tasks the protocol has created.  When cleanup returns, main *)
(* returns and the event loop ends: no task is resumed any more.  The      *)
(* shutdown is the last event of a run: what the user and the server did   *)
(* before it may still be in progress in the tasks.  In the runs with a    *)
(* shutdown the user moves the throttle and presses no button.             *)
(***************************************************************************)
\* read_all_inputs() with no button pressed
HwThrottle == HwRead /\ pc'[HW] = "hw_sleep"

\* the tasks of self.tasks that the model has, in the order of start_tasks
ControllerTasks == <<HW, SPD, MON>>

ClnStart ==
    /\ current_task = NoTask
    /\ pc[CLN] = "none"
    /\ nenv < MaxEnvEvents
    /\ nenv' = MaxEnvEvents
    /\ pc' = [pc EXCEPT ![CLN] = "cln_cancel"]
    /\ current_task' = CLN
    /\ notif' = FALSE
    /\ UNCHANGED <<lvars, ctl, net, lck, que, rost, obs, loc, speed_enabled,
                   state_rocrail_status, reconnect_task, nframes, nenq, wire,
                   lost>>
    /\ UNCHANGED <<tvars, fvars>>

\* "if not task.done(): task.cancel(); await task" for the first task that
\* is not done: the task ends at its suspension point, what it was about to
\* queue is dropped; after the last task, await self.protocol.disconnect()
ClnCancel ==
    /\ Runs(CLN)
    /\ pc[CLN] = "cln_cancel"
    /\ IF \E i \in 1..3 : pc[ControllerTasks[i]] # "done"
       THEN LET i == CHOOSE i \in 1..3 :
                        /\ pc[ControllerTasks[i]] # "done"
                        /\ \A j \in 1..(i - 1) : pc[ControllerTasks[j]] = "done"
            IN  /\ pc' = [pc EXCEPT ![ControllerTasks[i]] = "done"]
                /\ pend' = [pend EXCEPT ![ControllerTasks[i]] = NoFrame]
                /\ current_task' = NoTask
                /\ UNCHANGED ret
       ELSE /\ pc' = [pc EXCEPT ![CLN] = "disc"]
            /\ ret' = [ret EXCEPT ![CLN] = "cln_end"]
            /\ current_task' = CLN
            /\ UNCHANGED pend
    /\ notif' = FALSE
    /\ UNCHANGED <<lvars, hst, ctl, net, lck, que, rost, msg, io,
                   speed_enabled, state_rocrail_status, reconnect_task>>
    /\ UNCHANGED <<tvars, fvars>>

\* wifi.disconnect() and leds.cleanup() find their locks free; cleanup and
\* main return, the processor is handed to no other task
ClnEnd ==
    /\ Runs(CLN)
    /\ pc[CLN] = "cln_end"
    /\ pc' = [pc EXCEPT ![CLN] = "done"]
    /\ current_task' = CLN
    /\ notif' = FALSE
    /\ UNCHANGED <<lvars, hst, ctl, net, lck, que, rost, loc, speed_enabled,
                   state_rocrail_status, reconnect_task>>
    /\ UNCHANGED <<tvars, fvars>>

NextShutdown ==
    \/ HwThrottle \/ SpeedControl \/ NextProtocol
    \/ ClnStart \/ ClnCancel \/ ClnEnd

(***************************************************************************)
(* The threaded program: threads and sockets                               *)
(*                                                                         *)
(* The threads are preemptive: any thread that is not blocked can take the *)
(* next step.  A step holds a read or a write of the shared flags          *)
(* (reconnect_running, _socket_lock, socket_client, running) together with *)
(* the statements around it that touch nothing another thread reads; in    *)
(* particular the test of reconnect_running and the assignment that        *)
(* follows it, and the test of _socket_lock and the assignment that        *)
(* follows it, are different steps.  rocrail_status is written by every    *)
(* thread and read by none of them; its writes go with the step they       *)
(* belong to.  Sleeps and blocking calls (connect, recv) end at any time.  *)
(* A socket id is handed out again once nothing refers to it any more.     *)
(***************************************************************************)
MainT == <<"main", 0>>          \* the main program of rocrail_controller.py
Lis(c) == <<"lis", c>>          \* socket_listener started for socket c
Rec(k) == <<"rec", k>>          \* k-th _reconnect_loop
Socks == 1..MaxSockets
Loops == 1..MaxLoops
Listeners == {Lis(c) : c \in Socks}
ReconnectLoops == {Rec(k) : k \in Loops}
Threads == {MainT} \cup Listeners \cup ReconnectLoops

\* config.py
RECONNECT_DELAY_FAST == 3000
RECONNECT_DELAY_SLOW == 8000
RECONNECT_FAST_ATTEMPTS == 3
\* thresholds of socket_listener's consecutive_errors
OSERROR_LIMIT == 10
EXCEPTION_LIMIT == 20

\* RocrailProtocol.__init__; no thread but the main program exists.
InitProtocol ==
    /\ socket_client = 0
    /\ running = FALSE
    /\ rocrail_status = "disconnected"
    /\ reconnect_running = FALSE
    /\ reconnect_attempts = 0
    /\ reconnect_enabled = FALSE
    /\ socket_lock = FALSE
    /\ locomotives_loaded = FALSE
    /\ locomotive_query_pending = FALSE
    /\ tpc = [t \in Threads |-> IF t = MainT THEN "m_start" ELSE "none"]
    /\ hold = [t \in Threads |-> 0]
    /\ delay = [t \in ReconnectLoops |-> 0]
    /\ consecutive_errors = [t \in Listeners |-> 0]
    /\ sock = [c \in Socks |-> "unused"]
    /\ loops_started = 0
    /\ own_attempts = [t \in ReconnectLoops |-> 0]
    /\ tenv = 0

\* nothing has been received, nothing built
InitData ==
    /\ xml_buffer = <<>>
    /\ message = ""
    /\ full_message = ""
    /\ returned = "none"
    /\ sends = 0
    /\ last_rocrail_activity_time = 0
    /\ speed_samples = <<0, 0, 0, 0, 0>>
    /\ samples = <<>>
    /\ poti_speed = 0
    /\ loco_dir = "true"
    /\ sending_speed_enabled = TRUE
    /\ poti_last_speed = -1
    /\ wifi_status = "initial"
    /\ events = {}
    /\ calls = <<>>
    /\ got = "none"
    /\ loco_list = [locomotives |-> <<>>, selected_index |-> 0]
    /\ xml_response = <<>>
    /\ locomotives_found = <<>>
    /\ applied = 0
    /\ ticks_ms = 5000
    /\ locomotive_query_start_time = 0
    /\ elapsed = 0
    /\ rejected = FALSE

Init == InitAsync /\ InitProtocol /\ InitData

SpecAsync == Init /\ [][NextAsync]_vars

\* the asyncio program with its shutdown
SpecShutdown == Init /\ [][NextShutdown]_vars

\* what no step of the threads touches
async == <<avars, hvars, fvars>>

Goto(t, l) == tpc' = [tpc EXCEPT ![t] = l]
Alive(t) == tpc[t] \notin {"none", "done"}

\* variable groups of the frame conditions
tsk == <<socket_client, sock, hold>>
tflag == <<running, reconnect_running, reconnect_attempts, reconnect_enabled>>
trost == <<locomotives_loaded, locomotive_query_pending>>
tloc == <<delay, consecutive_errors>>
tobs == <<loops_started, own_attempts, tenv>>

(***************************************************************************)
(* Loss notification: the caller's check and _start_reconnect_thread       *)
(***************************************************************************)
\* where a thread goes on after the call that noticed the loss has returned:
\* the main loop, the statement after the listener's loop ("break"), the
\* statement after the reconnect loop ("break" after query_locomotives)
Return(t) ==
    IF t = MainT THEN "m_loop"
    ELSE IF t \in Listeners THEN "l_end" ELSE "r_end"

NotifySkipped(t) == Goto(t, Return(t))

\* "if not self.reconnect_running: self._start_reconnect_thread()"
Notify(t) == Goto(t, IF reconnect_running THEN Return(t) ELSE "srt_guard")

\* mutation of ReconnectEnabled: the roster gate is not consulted
EnabledIgnored == TRUE

\* "if not self.reconnect_enabled: return" lets a loss go on only with this
ReconnectEnabled == reconnect_enabled

\* the three early returns of _start_reconnect_thread (host and port are set
\* by start_connection before any thread exists)
StartGuard(t) ==
    /\ tpc[t] = "srt_guard"
    /\ Goto(t, IF ~ReconnectEnabled \/ reconnect_running
                THEN Return(t) ELSE "srt_set")
    /\ UNCHANGED <<lvars, async, tsk, tflag, trost, tloc, tobs, rocrail_status,
                   socket_lock>>

\* self.reconnect_running = True, self.reconnect_attempts = 0 and
\* _thread.start_new_thread(self._reconnect_loop, ()): the thread exists from
\* here on, or the platform has no thread left and OSError resets the flag.
StartLoop(t) ==
    /\ tpc[t] = "srt_set"
    /\ reconnect_attempts' = 0
    /\ IF loops_started < MaxLoops
       THEN /\ reconnect_running' = TRUE
            /\ loops_started' = loops_started + 1
            /\ tpc' = [tpc EXCEPT ![t] = Return(t),
                                  ![Rec(loops_started + 1)] = "r_head"]
       ELSE /\ reconnect_running' = FALSE
            /\ Goto(t, Return(t))
            /\ UNCHANGED loops_started
    /\ UNCHANGED <<lvars, async, tsk, running, reconnect_enabled, trost, tloc,
                   own_attempts, tenv, rocrail_status, socket_lock>>

(***************************************************************************)
(* send_speed_and_direction, send_light_command (label s_send) and         *)
(* query_locomotives (labels q_check, q_send)                              *)
(***************************************************************************)
\* what socket_client.send can do; None has no send at all
SendOutcomes(c) ==
    IF c = 0 THEN {"fail"}
    ELSE IF sock[c] = "open" THEN {"ok"}
    ELSE IF sock[c] = "peer_closed" THEN {"ok", "fail"}
    ELSE {"fail"}

IsQuery(l) == l = "q_send"

\* query_locomotives is entered: "if self.socket_client:"
SendCheck(t) ==
    /\ tpc[t] = "q_check"
    /\ Goto(t, IF socket_client = 0 THEN Return(t) ELSE "q_send")
    /\ UNCHANGED <<lvars, async, tsk, tflag, trost, tloc, tobs, rocrail_status,
                   socket_lock>>

\* self.socket_client.send(...) and what follows it in the try or the except
SendSend(t) ==
    /\ tpc[t] \in {"s_send", "q_send"}
    /\ \E o \in SendOutcomes(socket_client) :
          IF o = "ok"
          THEN /\ rocrail_status' = "connected"
               /\ locomotive_query_pending' =
                     IF IsQuery(tpc[t]) THEN TRUE ELSE locomotive_query_pending
               /\ Goto(t, Return(t))
          ELSE /\ rocrail_status' = "lost"
               /\ locomotive_query_pending' =
                     IF IsQuery(tpc[t]) THEN FALSE ELSE locomotive_query_pending
               /\ Notify(t)
    /\ UNCHANGED <<lvars, async, tsk, tflag, locomotives_loaded, tloc, tobs,
                   socket_lock>>

(***************************************************************************)
(* The main program                                                        *)
(***************************************************************************)
\* start_connection, and on success initialize_locomotive_list's query
StartConnection ==
    /\ tpc[MainT] = "m_start"
    /\ \/ /\ socket_client' = 1
          /\ sock' = [sock EXCEPT ![1] = "open"]
          /\ rocrail_status' = "connected"
          /\ running' = TRUE
          /\ tpc' = [tpc EXCEPT ![MainT] = "q_check", ![Lis(1)] = "l_loop"]
       \/ /\ rocrail_status' = "lost"
          /\ Goto(MainT, "done")
          /\ UNCHANGED <<socket_client, sock, running>>
    /\ UNCHANGED <<lvars, async, hold, reconnect_running, reconnect_attempts,
                   reconnect_enabled, trost, tloc, tobs, socket_lock>>

\* main loop: a speed, stop or light command is due; the send function is
\* entered and finds a socket ("if self.socket_client:")
MainSend ==
    /\ tpc[MainT] = "m_loop"
    /\ socket_client # 0
    /\ Goto(MainT, "s_send")
    /\ UNCHANGED <<lvars, async, tsk, tflag, trost, tloc, tobs, rocrail_status,
                   socket_lock>>

NeverLoaded == FALSE

\* RocrailProtocol.are_locomotives_loaded
are_locomotives_loaded == locomotives_loaded

\* main loop: the periodic roster query is due and finds a socket
MainQuery ==
    /\ tpc[MainT] = "m_loop"
    /\ ~are_locomotives_loaded
    /\ ~locomotive_query_pending
    /\ socket_client # 0
    /\ Goto(MainT, "q_send")
    /\ UNCHANGED <<lvars, async, tsk, tflag, trost, tloc, tobs, rocrail_status,
                   socket_lock>>

\* main loop: the roster query timed out, reset_query_state (for a query
\* whose start time is not 0; SpecQuery has the clock)
MainQueryTimeout ==
    /\ tpc[MainT] = "m_loop"
    /\ ~locomotives_loaded
    /\ locomotive_query_pending
    /\ locomotive_query_pending' = FALSE
    /\ UNCHANGED <<lvars, async, tsk, tflag, locomotives_loaded, tpc, tloc,
                   tobs, rocrail_status, socket_lock>>

(***************************************************************************)
(* socket_listener and handle_data                                         *)
(***************************************************************************)
\* an error of the listener: count it, give up beyond the limit (the counter
\* is not read again once the loop is left and is kept at 0 from there on)
ListenerError(t, limit) ==
    IF consecutive_errors[t] + 1 > limit
    THEN /\ rocrail_status' = "lost"
         /\ Notify(t)
         /\ consecutive_errors' = [consecutive_errors EXCEPT ![t] = 0]
    ELSE /\ Goto(t, "l_loop")
         /\ consecutive_errors' =
               [consecutive_errors EXCEPT ![t] = consecutive_errors[t] + 1]
         /\ UNCHANGED rocrail_status

\* "while self.running:" and the call of self.socket_client.recv
ListenLoop(t) ==
    /\ t \in Listeners
    /\ tpc[t] = "l_loop"
    /\ IF ~running
       THEN /\ Goto(t, "l_end")
            /\ consecutive_errors' = [consecutive_errors EXCEPT ![t] = 0]
            /\ UNCHANGED <<hold, rocrail_status>>
       ELSE IF socket_client = 0
       THEN /\ ListenerError(t, EXCEPTION_LIMIT)
            /\ UNCHANGED hold
       ELSE IF sock[socket_client] \in {"connecting", "closed"}
       THEN /\ ListenerError(t, OSERROR_LIMIT)
            /\ UNCHANGED hold
       ELSE /\ hold' = [hold EXCEPT ![t] = socket_client]
            /\ Goto(t, "l_recv")
            /\ UNCHANGED <<rocrail_status, consecutive_errors>>
    /\ UNCHANGED <<lvars, async, socket_client, sock, tflag, trost, delay, tobs,
                   socket_lock>>

\* what recv on socket c can return
RecvOutcomes(c) ==
    IF sock[c] = "open" THEN {"data", "roster"}
    ELSE IF sock[c] = "peer_closed" THEN {"empty"}
    ELSE {"empty", "oserror"}

\* handle_data on a packet that completes, or does not complete, the roster
handle_data(o) ==
    /\ rocrail_status' = "connected"
    /\ IF o = "roster" /\ ~locomotives_loaded
       THEN /\ \E r \in ServerRosters : locomotives' = r
            /\ selected_index' = 0
            /\ locomotive_query_pending' = FALSE
            /\ locomotives_loaded' = TRUE
            /\ reconnect_enabled' = TRUE
       ELSE UNCHANGED <<lvars, trost, reconnect_enabled>>

\* recv returns or raises
ListenRecv(t) ==
    /\ t \in Listeners
    /\ tpc[t] = "l_recv"
    /\ \E o \in RecvOutcomes(hold[t]) :
          CASE o \in {"data", "roster"} ->
                 /\ handle_data(o)
                 /\ consecutive_errors' = [consecutive_errors EXCEPT ![t] = 0]
                 /\ Goto(t, "l_loop")
            [] o = "empty" ->
                 /\ rocrail_status' = "lost"
                 /\ Notify(t)
                 /\ consecutive_errors' = [consecutive_errors EXCEPT ![t] = 0]
                 /\ UNCHANGED <<lvars, trost, reconnect_enabled>>
            [] o = "oserror" ->
                 /\ ListenerError(t, OSERROR_LIMIT)
                 /\ UNCHANGED <<lvars, trost, reconnect_enabled>>
    /\ hold' = [hold EXCEPT ![t] = 0]
    /\ UNCHANGED <<async, socket_client, sock, running, reconnect_running,
                   reconnect_attempts, delay, tobs, socket_lock>>

\* the statement after the loop: self.running = False
ListenEnd(t) ==
    /\ t \in Listeners
    /\ tpc[t] = "l_end"
    /\ running' = FALSE
    /\ Goto(t, "done")
    /\ UNCHANGED <<lvars, async, tsk, reconnect_running, reconnect_attempts,
                   reconnect_enabled, trost, tloc, tobs, rocrail_status,
                   socket_lock>>

\* the server closes a connection
PeerClose(c) ==
    /\ sock[c] = "open"
    /\ tenv < MaxServerCloses
    /\ tenv' = tenv + 1
    /\ sock' = [sock EXCEPT ![c] = "peer_closed"]
    /\ UNCHANGED <<lvars, async, socket_client, hold, tflag, trost, tpc, tloc,
                   loops_started, own_attempts, rocrail_status, socket_lock>>

(***************************************************************************)
(* _reconnect_loop with _cleanup_socket and _attempt_connection            *)
(***************************************************************************)
\* the delay before the next attempt
BackoffDelay(attempts) ==
    IF attempts < RECONNECT_FAST_ATTEMPTS
    THEN RECONNECT_DELAY_FAST ELSE RECONNECT_DELAY_SLOW

\* "while self.reconnect_running and RECONNECT_UNLIMITED:" and the choice of
\* the delay
LoopHead(t) ==
    /\ t \in ReconnectLoops
    /\ tpc[t] = "r_head"
    /\ IF reconnect_running
       THEN /\ delay' = [delay EXCEPT ![t] = BackoffDelay(reconnect_attempts)]
            /\ Goto(t, "r_sleep")
       ELSE /\ Goto(t, "r_end")
            /\ UNCHANGED delay
    /\ UNCHANGED <<lvars, async, tsk, tflag, trost, consecutive_errors, tobs,
                   rocrail_status, socket_lock>>

\* connection attempts the loops 1..k have begun
RECURSIVE AttemptsBegun(_)
AttemptsBegun(k) ==
    IF k = 0 THEN 0 ELSE own_attempts[Rec(k)] + AttemptsBegun(k - 1)

\* time.sleep(delay / 1000.0) is over: cancelled, or the attempt begins with
\* status "reconnecting" and self.reconnect_attempts += 1
LoopWake(t) ==
    /\ t \in ReconnectLoops
    /\ tpc[t] = "r_sleep"
    /\ IF reconnect_running
       THEN /\ AttemptsBegun(MaxLoops) < MaxAttempts
            /\ rocrail_status' = "reconnecting"
            /\ reconnect_attempts' = reconnect_attempts + 1
            /\ own_attempts' = [own_attempts EXCEPT ![t] = own_attempts[t] + 1]
            /\ Goto(t, "c_acq")
       ELSE /\ Goto(t, "r_end")
            /\ UNCHANGED <<rocrail_status, reconnect_attempts, own_attempts>>
    /\ UNCHANGED <<lvars, async, tsk, running, reconnect_running,
                   reconnect_enabled, trost, tloc, loops_started, tenv,
                   socket_lock>>

\* the attempt failed: cool-down pauses, the counter falls back to 5 beyond 30
Cooldown(attempts) == IF attempts > 30 THEN 5 ELSE attempts

\* _acquire_socket_lock: the wait loop sees the lock free, or the 500 ms are
\* over; _attempt_connection then returns False through its "finally", which
\* releases the lock whoever holds it
AcquireWait(t) ==
    /\ t \in ReconnectLoops
    /\ tpc[t] \in {"c_acq", "a_acq"}
    /\ IF ~socket_lock
       THEN /\ Goto(t, IF tpc[t] = "c_acq" THEN "c_set" ELSE "a_set")
            /\ UNCHANGED <<socket_lock, reconnect_attempts>>
       ELSE IF tpc[t] = "c_acq"
       THEN /\ Goto(t, "a_acq")
            /\ UNCHANGED <<socket_lock, reconnect_attempts>>
       ELSE /\ Goto(t, "r_head")
            /\ socket_lock' = FALSE
            /\ reconnect_attempts' = Cooldown(reconnect_attempts)
    /\ UNCHANGED <<lvars, async, tsk, running, reconnect_running,
                   reconnect_enabled, trost, tloc, tobs, rocrail_status>>

\* close() on the socket the attribute refers to
Closed(c) == IF c = 0 THEN sock ELSE [sock EXCEPT ![c] = "closed"]

\* _cleanup_socket with the lock: close, self.socket_client = None
CleanupClose(t) ==
    /\ t \in ReconnectLoops
    /\ tpc[t] = "c_set"
    /\ socket_lock' = TRUE
    /\ sock' = Closed(socket_client)
    /\ socket_client' = 0
    /\ Goto(t, "c_rel")
    /\ UNCHANGED <<lvars, async, hold, tflag, trost, tloc, tobs, rocrail_status>>

\* _cleanup_socket: sleep, release in "finally"; sleep of the caller
CleanupRelease(t) ==
    /\ t \in ReconnectLoops
    /\ tpc[t] = "c_rel"
    /\ socket_lock' = FALSE
    /\ Goto(t, "a_acq")
    /\ UNCHANGED <<lvars, async, tsk, tflag, trost, tloc, tobs, rocrail_status>>

\* socket ids no reference is left to
FreeSocks ==
    {c \in Socks : /\ sock[c] \in {"unused", "closed"}
                   /\ socket_client # c
                   /\ \A t \in Threads : hold[t] # c
                   /\ ~Alive(Lis(c))}

\* except-branch of _attempt_connection with its "finally", back in the loop
AttemptFailed(t) ==
    /\ rocrail_status' = "lost"
    /\ socket_client' = 0
    /\ socket_lock' = FALSE
    /\ hold' = [hold EXCEPT ![t] = 0]
    /\ reconnect_attempts' = Cooldown(reconnect_attempts)
    /\ Goto(t, "r_head")

\* _attempt_connection with the lock: self.socket_client = socket.socket(),
\* connect is called on it
AttemptSocket(t) ==
    /\ t \in ReconnectLoops
    /\ tpc[t] = "a_set"
    /\ IF FreeSocks = {}
       THEN /\ AttemptFailed(t)
            /\ sock' = Closed(socket_client)
       ELSE LET c == CHOOSE x \in FreeSocks : \A y \in FreeSocks : x <= y
            IN /\ socket_client' = c
               /\ socket_lock' = TRUE
               /\ sock' = [sock EXCEPT ![c] = "connecting"]
               /\ hold' = [hold EXCEPT ![t] = c]
               /\ Goto(t, "a_conn")
               /\ UNCHANGED <<rocrail_status, reconnect_attempts>>
    /\ UNCHANGED <<lvars, async, running, reconnect_running, reconnect_enabled,
                   trost, tloc, tobs>>

\* connect returns or raises
AttemptConnect(t) ==
    /\ t \in ReconnectLoops
    /\ tpc[t] = "a_conn"
    /\ \/ /\ sock[hold[t]] = "connecting"
          /\ sock' = [sock EXCEPT ![hold[t]] = "open"]
          /\ rocrail_status' = "connected"
          /\ running' = TRUE
          /\ Goto(t, "a_listen")
          /\ UNCHANGED <<socket_client, hold, socket_lock, reconnect_attempts>>
       \/ /\ AttemptFailed(t)
          /\ sock' = [Closed(socket_client) EXCEPT ![hold[t]] = "closed"]
          /\ UNCHANGED running
    /\ UNCHANGED <<lvars, async, reconnect_running, reconnect_enabled, trost,
                   tloc, tobs>>

\* mutation of AfterConnected: no "break", the loop goes round again
AfterConnectedRetry == "r_head"

\* _attempt_connection returned True: query_locomotives if no roster is
\* loaded, then "break"
AfterConnected == IF locomotives_loaded THEN "r_end" ELSE "q_check"

\* the listener thread is started, "finally" releases the lock; back in the
\* loop the counter is reset and the roster queried if none is loaded
AttemptListen(t) ==
    /\ t \in ReconnectLoops
    /\ tpc[t] = "a_listen"
    /\ tpc' = [tpc EXCEPT ![t] = AfterConnected,
                          ![Lis(hold[t])] = "l_loop"]
    /\ consecutive_errors' = [consecutive_errors EXCEPT ![Lis(hold[t])] = 0]
    /\ hold' = [hold EXCEPT ![t] = 0]
    /\ socket_lock' = FALSE
    /\ reconnect_attempts' = 0
    /\ UNCHANGED <<lvars, async, socket_client, sock, running,
                   reconnect_running, reconnect_enabled, trost, delay, tobs,
                   rocrail_status>>

\* the statement after the loop: self.reconnect_running = False
LoopEnd(t) ==
    /\ t \in ReconnectLoops
    /\ tpc[t] = "r_end"
    /\ reconnect_running' = FALSE
    /\ Goto(t, "done")
    /\ UNCHANGED <<lvars, async, tsk, running, reconnect_attempts,
                   reconnect_enabled, trost, tloc, tobs, rocrail_status,
                   socket_lock>>

NextThread ==
    \/ StartConnection \/ MainSend \/ MainQuery \/ MainQueryTimeout
    \/ \E t \in Threads :
          \/ StartGuard(t) \/ StartLoop(t)
          \/ SendCheck(t) \/ SendSend(t)
          \/ ListenLoop(t) \/ ListenRecv(t) \/ ListenEnd(t)
          \/ LoopHead(t) \/ LoopWake(t)
          \/ AcquireWait(t) \/ CleanupClose(t) \/ CleanupRelease(t)
          \/ AttemptSocket(t) \/ AttemptConnect(t) \/ AttemptListen(t)
          \/ LoopEnd(t)
    \/ \E c \in Socks : PeerClose(c)

SpecThread == Init /\ [][NextThread]_vars

\* a step of thread t inside the protocol's code (the main program between two
\* calls is at "m_loop" and takes none)
ThreadStep(t) ==
    \/ StartGuard(t) \/ StartLoop(t)
    \/ SendCheck(t) \/ SendSend(t)
    \/ ListenLoop(t) \/ ListenRecv(t) \/ ListenEnd(t)
    \/ LoopHead(t) \/ LoopWake(t)
    \/ AcquireWait(t) \/ CleanupClose(t) \/ CleanupRelease(t)
    \/ AttemptSocket(t) \/ AttemptConnect(t) \/ AttemptListen(t)
    \/ LoopEnd(t)

\* The scheduler of _thread runs every thread that can run; sleeps and blocking
\* socket calls return; the interval timers of the main loop fire (the roster
\* query and its timeout).  That the user makes the main program send a
\* command is not assumed.
FairThreads ==
    /\ \A t \in Threads : WF_vars(ThreadStep(t))
    /\ WF_vars(MainQuery)
    /\ WF_vars(MainQueryTimeout)

SpecThreadFair == SpecThread /\ FairThreads

(***************************************************************************)
(* RocrailProtocol.stop_connection, called by the main program when it is  *)
(* interrupted in its loop; the main program ends after it ("stopped")     *)
(***************************************************************************)
\* self.reconnect_running = False, self.running = False, status
\* "disconnected"; _cleanup_socket is entered
StopConnection ==
    /\ tpc[MainT] = "m_loop"
    /\ reconnect_running' = FALSE
    /\ running' = FALSE
    /\ rocrail_status' = "disconnected"
    /\ Goto(MainT, "st_acq")
    /\ UNCHANGED <<lvars, async, tsk, reconnect_attempts, reconnect_enabled,
                   trost, tloc, tobs, socket_lock>>

\* _cleanup_socket: _acquire_socket_lock sees the lock free, or its 500 ms
\* are over and _cleanup_socket returns without closing anything
StopAcquire ==
    /\ tpc[MainT] = "st_acq"
    /\ Goto(MainT, IF socket_lock THEN "stopped" ELSE "st_set")
    /\ UNCHANGED <<lvars, async, tsk, tflag, trost, tloc, tobs, rocrail_status,
                   socket_lock>>

\* _cleanup_socket with the lock: close, self.socket_client = None
StopClose ==
    /\ tpc[MainT] = "st_set"
    /\ socket_lock' = TRUE
    /\ sock' = Closed(socket_client)
    /\ socket_client' = 0
    /\ Goto(MainT, "st_rel")
    /\ UNCHANGED <<lvars, async, hold, tflag, trost, tloc, tobs, rocrail_status>>

\* _cleanup_socket: release in "finally"; time.sleep(0.3), return
StopRelease ==
    /\ tpc[MainT] = "st_rel"
    /\ socket_lock' = FALSE
    /\ Goto(MainT, "stopped")
    /\ UNCHANGED <<lvars, async, tsk, tflag, trost, tloc, tobs, rocrail_status>>

\* the main program is interrupted before it has a command to send
NextStop ==
    \/ StartConnection
    \/ \E t \in Threads : ThreadStep(t)
    \/ \E c \in Socks : PeerClose(c)
    \/ StopConnection \/ StopAcquire \/ StopClose \/ StopRelease

\* the threaded program with its shutdown
SpecStop == Init /\ [][NextStop]_vars

(***************************************************************************)
(* The receive buffer of both protocol classes                             *)
(*                                                                         *)
(* A text is a sequence of pieces: a run of n characters that holds no tag, *)
(* the tag <lclist>, the tag </lclist>, or one <lc .../> definition entry.  *)
(* Runs that meet are one run.  A text cut inside a tag or an entry keeps   *)
(* the characters of the part and no tag.                                   *)
(***************************************************************************)
Piece(k, n) == [k |-> k, n |-> n]
Text(n) == <<Piece("text", n)>>
OpenTag == <<Piece("open", 8)>>     \* '<lclist>'
CloseTag == <<Piece("close", 9)>>   \* '</lclist>'
LcEntry == <<Piece("lc", 34)>>      \* '<lc id="BR01" roadname="Express"/>'

\* len(s)
RECURSIVE StrLen(_)
StrLen(s) == IF s = <<>> THEN 0 ELSE Head(s).n + StrLen(Tail(s))

\* a + b
Join(a, b) ==
    IF a # <<>> /\ b # <<>> /\ a[Len(a)].k = "text" /\ b[1].k = "text"
    THEN SubSeq(a, 1, Len(a) - 1) \o Text(a[Len(a)].n + b[1].n) \o Tail(b)
    ELSE a \o b

\* s[:n]
RECURSIVE Prefix(_, _)
Prefix(s, n) ==
    IF n <= 0 \/ s = <<>> THEN <<>>
    ELSE IF Head(s).n <= n
         THEN Join(<<Head(s)>>, Prefix(Tail(s), n - Head(s).n))
         ELSE Text(n)

\* s[n:]
RECURSIVE Suffix(_, _)
Suffix(s, n) ==
    IF s = <<>> THEN <<>>
    ELSE IF n <= 0 THEN s
    ELSE IF Head(s).n <= n THEN Suffix(Tail(s), n - Head(s).n)
    ELSE Join(Text(Head(s).n - n), Tail(s))

\* the pieces of kind k in s
Places(s, k) == {i \in 1..Len(s) : s[i].k = k}

\* s.find(tag): the index of the first occurrence, -1 if there is none
Find(s, k) ==
    IF Places(s, k) = {} THEN -1
    ELSE StrLen(SubSeq(s, 1, (CHOOSE i \in Places(s, k) :
                                 \A j \in Places(s, k) : i <= j) - 1))

\* LocoList.update_from_rocrail_response(xml) returns True: both tags are in
\* the text and the section from the first <lclist> to the end of the first
\* </lclist> holds a definition entry
Parses(xml) ==
    /\ Find(xml, "open") # -1
    /\ Find(xml, "close") # -1
    /\ Places(Suffix(Prefix(xml, Find(xml, "close") + 9), Find(xml, "open")),
              "lc") # {}

\* _process_locomotive_data, "Prevent buffer from growing too large": beyond
\* 16384 characters keep the text from the first <lclist> on, or the last
\* 4096 characters when there is no <lclist>
PreserveBuffer(b) ==
    IF StrLen(b) > 16384
    THEN IF Find(b, "open") # -1 THEN Suffix(b, Find(b, "open"))
         ELSE Suffix(b, StrLen(b) - 4096)
    ELSE b

\* mutation of TruncateBuffer: what is kept from <lclist> on is not limited
TruncateKeepAll(b) == PreserveBuffer(b)

\* handle_data, "Aggressive buffer management": beyond 16384 characters keep
\* the text from the first <lclist> on, 8192 characters at most, or the last
\* 4096 characters when there is no <lclist>
TruncateBuffer(b) ==
    IF StrLen(b) > 16384
    THEN IF Find(b, "open") # -1 THEN Prefix(Suffix(b, Find(b, "open")), 8192)
         ELSE Suffix(b, StrLen(b) - 4096)
    ELSE b

\* the tags and entries in a text
Marks(s) == Cardinality({i \in 1..Len(s) : s[i].k # "text"})

\* What one recv delivers, decoded: a TCP segment, a full read, the lengths
\* around the 8192-character packet limit, a tag, an entry.
Packets ==
    {Text(1460), Text(4096), Text(8192), Text(8193), OpenTag, CloseTag,
     LcEntry, Join(Text(4088), OpenTag), Join(OpenTag, Text(1452))}

NeverTooLarge(data_str) == FALSE

\* handle_data: "if len(data_str) > 8192", the packet is rejected
TooLarge(data_str) == StrLen(data_str) > 8192

KeepStatus(status) == status

\* handle_data: "lost" becomes "connected", and so does every other status
DataStatus(status) ==
    IF status = "lost" THEN "connected"
    ELSE IF status # "connected" THEN "connected" ELSE status

\* RocrailProtocol.handle_data(data) for the decoded packet p
HandleData(p) ==
    /\ last_rocrail_activity_time' = ticks_ms
    /\ rocrail_status' = DataStatus(rocrail_status)
    /\ rejected' = TooLarge(p)
    /\ IF TooLarge(p)
       THEN UNCHANGED <<xml_buffer, lvars, trost, reconnect_enabled>>
       ELSE IF locomotives_loaded
       THEN /\ xml_buffer' = IF StrLen(xml_buffer) > 1024 THEN <<>>
                             ELSE xml_buffer
            /\ UNCHANGED <<lvars, trost, reconnect_enabled>>
       ELSE IF Parses(Join(xml_buffer, p))
       THEN /\ \E r \in ServerRosters : locomotives' = r
            /\ selected_index' = 0
            /\ locomotive_query_pending' = FALSE
            /\ locomotives_loaded' = TRUE
            /\ reconnect_enabled' = TRUE
            /\ xml_buffer' = <<>>
       ELSE /\ xml_buffer' = TruncateBuffer(Join(xml_buffer, p))
            /\ UNCHANGED <<lvars, trost, reconnect_enabled>>
    /\ UNCHANGED <<avars, hvars, tsk, running, reconnect_running,
                   reconnect_attempts, socket_lock, tpc, tloc, tobs, message,
                   full_message, returned, sends, pvars, svars, rvars,
                   ticks_ms, locomotive_query_start_time, elapsed>>

\* handle_data is given a packet that keeps the buffer within the bound
HandleDataPacket(p) ==
    /\ Marks(Join(xml_buffer, p)) <= MaxMarks
    /\ HandleData(p)

NextHandleData == \E p \in Packets : HandleDataPacket(p)

\* handle_data fed with a stream of packets
SpecHandleData == Init /\ [][NextHandleData]_vars

\* What one reader.read(4096) delivers, decoded.
ReadPackets == {p \in Packets : StrLen(p) <= 4096}

\* AsyncRocrailProtocol._handle_received_data(data) for the decoded packet p
\* with _process_locomotive_data
ProcessLocomotiveData(p) ==
    /\ StrLen(xml_buffer) <= MaxBuffer
    /\ Marks(Join(xml_buffer, p)) <= MaxMarks
    /\ state_rocrail_status' = "connected"
    /\ IF a_locomotives_loaded
       THEN UNCHANGED <<xml_buffer, lvars, rost>>
       ELSE IF Find(Join(xml_buffer, p), "open") # -1
               /\ Find(Join(xml_buffer, p), "close") # -1
       THEN IF Parses(Join(xml_buffer, p))
            THEN /\ \E r \in ServerRosters : locomotives' = r
                 /\ selected_index' = 0
                 /\ a_locomotives_loaded' = TRUE
                 /\ query_pending' = FALSE
                 /\ xml_buffer' = <<>>
            ELSE /\ xml_buffer' = Join(xml_buffer, p)
                 /\ UNCHANGED <<lvars, rost>>
       ELSE /\ xml_buffer' = PreserveBuffer(Join(xml_buffer, p))
            /\ UNCHANGED <<lvars, rost>>
    /\ UNCHANGED <<tvars, hvars, ctl, net, lck, que, loc, speed_enabled,
                   reconnect_task, pc, current_task, fmsg, rvars, qvars>>

NextProcessData == \E p \in ReadPackets : ProcessLocomotiveData(p)

\* _process_locomotive_data fed with a stream of packets
SpecProcessData == Init /\ [][NextProcessData]_vars

(***************************************************************************)
(* Message framing (the same in both protocol classes)                     *)
(***************************************************************************)
\* ids of the locomotives a roster can select, throttle values and directions
LocoIds == {"BR01", "BR103", "V200"}
AllSpeeds == 0..126
Directions == {"true", "false"}

\* f'<lc id="{current_loco_id}" V="{speed}" dir="{direction}"/>'
lc_message(id, speed, direction) ==
    "<lc id=\"" \o id \o "\" V=\"" \o ToString(speed) \o "\" dir=\""
        \o direction \o "\"/>"

\* mutation of encode: the announced size counts the header too
EncodeWholeSize(m) ==
    "<xmlh><xml size=\""
        \o ToString(Len("<xmlh><xml size=\"\"/></xmlh>" \o m))
        \o "\"/></xmlh>" \o m

\* f'<xmlh><xml size="{message_len}"/></xmlh>{message}'
encode(m) == "<xmlh><xml size=\"" \o ToString(Len(m)) \o "\"/></xmlh>" \o m

\* send_speed_direction / send_speed_and_direction build the command for the
\* selected locomotive and frame it
SendSpeedDirection(id, speed, direction) ==
    /\ message' = lc_message(id, speed, direction)
    /\ full_message' = encode(lc_message(id, speed, direction))
    /\ UNCHANGED <<lvars, avars, hvars, tvars, xml_buffer, rvars, qvars, svars,
                   returned, sends, last_rocrail_activity_time, pvars>>

NextFraming ==
    \E id \in LocoIds, speed \in AllSpeeds, direction \in Directions :
        SendSpeedDirection(id, speed, direction)

\* the framing of speed commands for every locomotive, speed and direction
SpecFraming == Init /\ [][NextFraming]_vars

(***************************************************************************)
(* LocoList in full (lib/loco_list.py): roster records, the extractor and  *)
(* the operations on the list.  A roster record is the sequence of its     *)
(* <lc .../> entries between <lclist> and </lclist>; an entry is the       *)
(* sequence of its attributes, each a pair <<name, value>>.                *)
(***************************************************************************)
MaxEntries == 2         \* entries of one roster record
MaxApplied == 2         \* times in a row one record is given to the list

Attr(n, v) == <<n, v>>

\* entries a server sends: definitions, status updates and odd ones
LcEntries ==
    { <<Attr("id", "BR01"), Attr("roadname", "Express")>>,
      <<Attr("id", "BR02"), Attr("V", "10"), Attr("dir", "true")>>,
      <<Attr("id", "BR02"), Attr("number", "7")>>,
      <<Attr("id", "BR01"), Attr("roadname", "Cargo")>>,
      <<Attr("id", "V200"), Attr("image", "v200.png"), Attr("V", "0")>>,
      <<Attr("id", "model"), Attr("shortid", "M1"), Attr("owner", "me")>>,
      <<Attr("shortid", "B3"), Attr("id", "BR103"), Attr("desc", "x")>>,
      <<Attr("id", ""), Attr("roadname", "Express")>>,
      <<Attr("id", " E94 ")>>,
      <<Attr("id", "a1"), Attr("color", "red")>> }

\* a record with more definitions than the list can hold
SixLocomotives ==
    << <<Attr("id", "BR01"), Attr("roadname", "Express")>>,
       <<Attr("id", "BR02"), Attr("number", "7")>>,
       <<Attr("id", "V200"), Attr("image", "v200.png"), Attr("V", "0")>>,
       <<Attr("id", "model"), Attr("shortid", "M1"), Attr("owner", "me")>>,
       <<Attr("id", " E94 ")>>,
       <<Attr("id", "a1"), Attr("color", "red")>> >>

Records ==
    UNION {[1..n -> LcEntries] : n \in 0..MaxEntries} \cup {SixLocomotives}

\* an attribute whose closing quote is missing, and the mark at the end of an
\* entry that is not closed by "/>"
Unclosed(n, v) == <<n, v, "unclosed">>
NoTerminator == <<"", "", "no />">>

\* entries with one fault each: no identifier, an empty one, an identifier
\* without closing quote before another attribute and as the last attribute,
\* no terminator
FaultyEntries ==
    { <<Attr("roadname", "Express")>>,
      <<Attr("id", ""), Attr("roadname", "Express")>>,
      <<Unclosed("id", "BR05"), Attr("roadname", "Express")>>,
      <<Attr("roadname", "Express"), Unclosed("id", "BR05")>>,
      <<Attr("id", "BR05"), Attr("roadname", "Express"), NoTerminator>> }

\* five definitions with five ids
FiveDefinitions ==
    << <<Attr("id", "BR01"), Attr("roadname", "Express")>>,
       <<Attr("id", "BR02"), Attr("number", "7")>>,
       <<Attr("id", "V200"), Attr("image", "v200.png"), Attr("V", "0")>>,
       <<Attr("id", "a1"), Attr("color", "red")>>,
       <<Attr("shortid", "B3"), Attr("id", "BR103"), Attr("desc", "x")>> >>

InsertAt(s, i, e) == SubSeq(s, 1, i - 1) \o <<e>> \o SubSeq(s, i, Len(s))

\* the first m of the five definitions with one faulty entry among them
FaultyRecords ==
    UNION { { InsertAt(SubSeq(FiveDefinitions, 1, m), i, e) :
                  i \in 1..(m + 1), e \in FaultyEntries } : m \in 1..5 }

\* "text[lc_pos:entry_end + 2]" or, without a terminator before the next
\* entry, "text[lc_pos:next_lc]": the attributes of the entry either way
EntryText(e) ==
    IF e # <<>> /\ e[Len(e)] = NoTerminator THEN SubSeq(e, 1, Len(e) - 1)
    ELSE e

\* "xml_text[value_start:value_end]" for the attribute at place i: the value
\* ends at the next quote, which for a value without closing quote is the
\* quote that opens the next value; without a further quote the result is None
ValueAt(xml_text, i) ==
    IF Len(xml_text[i]) = 2 THEN <<xml_text[i][2]>>
    ELSE IF i < Len(xml_text)
    THEN <<xml_text[i][2] \o " " \o xml_text[i + 1][1] \o "=">>
    ELSE <<>>

\* text.find(attr + '=') finds the pattern at the end of any attribute name
\* that ends in attr: 'id=' is found in 'shortid=' and in 'throttleid='
NameEndsWith(name, attr) ==
    \/ name = attr
    \/ attr = "id" /\ name \in {"shortid", "throttleid"}

\* attr in lc_entry, for attr a name followed by '='
Contains(lc_entry, attr) ==
    \E i \in 1..Len(lc_entry) : NameEndsWith(lc_entry[i][1], attr)

\* _extract_attribute: the value after the first occurrence of attr="; <<>>
\* stands for None and <<v>> for the value v
extract_attribute(xml_text, attr_name) ==
    IF Contains(xml_text, attr_name)
    THEN LET first == CHOOSE i \in 1..Len(xml_text) :
                        /\ NameEndsWith(xml_text[i][1], attr_name)
                        /\ \A j \in 1..(i - 1) :
                               ~NameEndsWith(xml_text[j][1], attr_name)
         IN  ValueAt(xml_text, first)
    ELSE <<>>

\* str.strip on the values of the model
strip(v) == IF v = " E94 " THEN "E94" ELSE v

\* "x and x.strip()" for an extracted attribute
Usable(a) == a # <<>> /\ a[1] # "" /\ strip(a[1]) # ""

DefinitionAttrs ==
    {"image", "roadname", "desc", "dectype", "owner", "color", "number"}
StatusAttrs == {"V", "dir", "server", "placing", "runtime", "throttleid"}

has_definition_attrs(lc_entry) ==
    \E attr \in DefinitionAttrs : Contains(lc_entry, attr)
has_status_attrs(lc_entry) ==
    \E attr \in StatusAttrs : Contains(lc_entry, attr)

\* the mutation of the check below that skips nothing
SkipNothing(lc_entry) == FALSE

\* "if has_status_attrs and not has_definition_attrs: return None"
SkipStatusUpdate(lc_entry) ==
    has_status_attrs(lc_entry) /\ ~has_definition_attrs(lc_entry)

\* _extract_loco_info_from_entry: <<>> for None, else <<[id, name]>>
extract_loco_info_from_entry(lc_entry) ==
    LET loco_id       == extract_attribute(lc_entry, "id")
        loco_shortid  == extract_attribute(lc_entry, "shortid")
        loco_roadname == extract_attribute(lc_entry, "roadname")
        loco_number   == extract_attribute(lc_entry, "number")
        identifier    ==
            IF Usable(loco_id) /\ loco_id[1] # "model"
            THEN <<strip(loco_id[1])>>
            ELSE IF Usable(loco_shortid) THEN <<strip(loco_shortid[1])>>
            ELSE <<>>
    IN  IF SkipStatusUpdate(lc_entry) \/ identifier = <<>> THEN <<>>
        ELSE << [id   |-> identifier[1],
                 name |-> IF Usable(loco_roadname)
                          THEN identifier[1] \o " (" \o strip(loco_roadname[1])
                                   \o ")"
                          ELSE IF Usable(loco_number)
                          THEN identifier[1] \o " #" \o strip(loco_number[1])
                          ELSE identifier[1]] >>

\* extract_locomotives_from_lclist: the infos of the entries, in the order
\* of the entries
RECURSIVE extract_locomotives_from_lclist(_)
extract_locomotives_from_lclist(lclist_xml) ==
    IF lclist_xml = <<>> THEN <<>>
    ELSE extract_loco_info_from_entry(EntryText(Head(lclist_xml)))
             \o extract_locomotives_from_lclist(Tail(lclist_xml))

\* x['name'].upper() on the names of the model, and the order of the
\* upper-cased names as Python compares strings
upper(name) == IF name = "a1" THEN "A1" ELSE name
UpperOrder ==
    <<"A1", "B3", "BR01", "BR01 (Cargo)", "BR01 (Express)", "BR02",
      "BR02 #7", "BR05 (Express)", "BR05 roadname= (Express)", "E94", "M1",
      "V200">>
Rank(name) == CHOOSE i \in 1..Len(UpperOrder) : UpperOrder[i] = upper(name)

\* list.sort(key=...) is stable: an entry goes behind the entries whose key
\* is not greater
RECURSIVE InsertByName(_, _)
InsertByName(sorted, x) ==
    IF sorted = <<>> THEN <<x>>
    ELSE IF Rank(Head(sorted).name) <= Rank(x.name)
    THEN <<Head(sorted)>> \o InsertByName(Tail(sorted), x)
    ELSE <<x>> \o sorted

RECURSIVE SortedByName(_)
SortedByName(l) ==
    IF l = <<>> THEN <<>>
    ELSE InsertByName(SortedByName(SubSeq(l, 1, Len(l) - 1)), l[Len(l)])

\* the mutation of _sort_alphabetically that leaves the order as it is
keep_order(ll) == [ll EXCEPT !.selected_index = 0]

\* _sort_alphabetically
sort_alphabetically(ll) ==
    [locomotives |-> SortedByName(ll.locomotives), selected_index |-> 0]

\* the mutation of add_locomotive that does not look for the id in the list
add_locomotive_twice(ll, loco_id, loco_name) ==
    IF Len(ll.locomotives) < 5
    THEN sort_alphabetically(
             [ll EXCEPT !.locomotives =
                  Append(@, [id |-> loco_id, name |-> loco_name])])
    ELSE ll

\* add_locomotive: the list after the call; the call returns True iff the
\* list has changed
add_locomotive(ll, loco_id, loco_name) ==
    IF \E i \in 1..Len(ll.locomotives) : ll.locomotives[i].id = loco_id
    THEN ll
    ELSE IF Len(ll.locomotives) < 5
    THEN sort_alphabetically(
             [ll EXCEPT !.locomotives =
                  Append(@, [id |-> loco_id, name |-> loco_name])])
    ELSE ll

\* the loop of update_from_rocrail_response over locomotives_found; five
\* entries added end it, and a sixth could not be added anyway
RECURSIVE AddAll(_, _)
AddAll(ll, found) ==
    IF found = <<>> THEN ll
    ELSE AddAll(add_locomotive(ll, Head(found).id, Head(found).name),
                Tail(found))

EmptyList == [locomotives |-> <<>>, selected_index |-> 0]

\* update_from_rocrail_response with a complete record: nothing found leaves
\* the list alone, else the list is cleared and filled
UpdateFromRocrailResponse(xml) ==
    /\ xml = xml_response => applied < MaxApplied
    /\ applied' = IF xml = xml_response THEN applied + 1 ELSE 1
    /\ xml_response' = xml
    /\ locomotives_found' = extract_locomotives_from_lclist(xml)
    /\ loco_list' = IF extract_locomotives_from_lclist(xml) = <<>>
                    THEN loco_list
                    ELSE AddAll(EmptyList,
                                extract_locomotives_from_lclist(xml))
    /\ UNCHANGED <<lvars, avars, hvars, tvars, xml_buffer, fmsg, qvars>>

\* the list changes by another operation: the record and the result of the
\* last update are forgotten
Forget ==
    /\ applied' = 0
    /\ xml_response' = <<>>
    /\ locomotives_found' = <<>>
    /\ UNCHANGED <<lvars, avars, hvars, tvars, xml_buffer, fmsg, qvars>>

\* ids and names add_locomotive is called with; without a name the id is
\* the name
RosterIds == {"BR01", "M1", "a1"}

AddLocomotive(loco_id) ==
    /\ loco_list' = add_locomotive(loco_list, loco_id, loco_id)
    /\ Forget

SelectNext ==
    /\ loco_list' = [loco_list EXCEPT !.selected_index =
           IF Len(loco_list.locomotives) <= 1 THEN @
           ELSE (@ + 1) % Len(loco_list.locomotives)]
    /\ Forget

SelectPrevious ==
    /\ loco_list' = [loco_list EXCEPT !.selected_index =
           IF Len(loco_list.locomotives) <= 1 THEN @
           ELSE (@ - 1) % Len(loco_list.locomotives)]
    /\ Forget

SelectByIndex(index) ==
    /\ loco_list' = [loco_list EXCEPT !.selected_index =
           IF 0 <= index /\ index < Len(loco_list.locomotives) THEN index
           ELSE @]
    /\ Forget

Clear ==
    /\ loco_list' = EmptyList
    /\ Forget

\* what the file can hold: lists the program has saved and lists it has not
Loco(i) == [id |-> i, name |-> i]
StoredFiles ==
    { [locomotives |-> <<>>, selected_index |-> 0],
      [locomotives |-> <<Loco("BR01"), Loco("BR02")>>, selected_index |-> 1],
      [locomotives |-> <<Loco("BR01"), Loco("BR02")>>, selected_index |-> 3],
      [locomotives |-> <<Loco("BR01")>>, selected_index |-> -1],
      [locomotives |-> <<Loco("V200"), Loco("BR01"), Loco("V200")>>,
       selected_index |-> 0],
      [locomotives |-> <<Loco("a1"), Loco("B3"), Loco("BR01"), Loco("BR02"),
                         Loco("E94"), Loco("M1")>>, selected_index |-> 5] }

\* load_from_file: the stored list and index are taken as they are, only an
\* index at or behind the end of the list becomes 0
LoadFromFile(data) ==
    /\ loco_list' = [data EXCEPT !.selected_index =
           IF @ >= Len(data.locomotives) THEN 0 ELSE @]
    /\ Forget

NextRoster ==
    \/ \E xml \in Records : UpdateFromRocrailResponse(xml)
    \/ \E loco_id \in RosterIds : AddLocomotive(loco_id)
    \/ SelectNext
    \/ SelectPrevious
    \/ \E index \in -1..5 : SelectByIndex(index)
    \/ Clear
    \/ \E data \in StoredFiles : LoadFromFile(data)

\* any sequence of operations on the LocoList
SpecRoster == Init /\ [][NextRoster]_vars

NextExtract ==
    \E xml \in Records \cup FaultyRecords : UpdateFromRocrailResponse(xml)

\* the LocoList given roster records of a server, faulty entries among them
SpecExtract == Init /\ [][NextExtract]_vars


(***************************************************************************)
(* The roster query of the threaded program against the clock: the main    *)
(* loop of rocrail_controller.py, query_locomotives and the commit of      *)
(* handle_data, with a socket that takes every query and a server that     *)
(* answers or does not.                                                    *)
(***************************************************************************)
TICKS_PERIOD == 1073741824
LOCO_QUERY_TIMEOUT == 10000
LOCO_QUERY_INTERVAL == 30000

\* time.ticks_diff(a, b)
ticks_diff(a, b) ==
    ((a - b + TICKS_PERIOD \div 2 + TICKS_PERIOD) % TICKS_PERIOD)
        - TICKS_PERIOD \div 2

\* readings of the clock at which something happens
Instants ==
    {0, 1, 5000, LOCO_QUERY_TIMEOUT, LOCO_QUERY_TIMEOUT + 1,
     LOCO_QUERY_TIMEOUT + 5001, 2 * LOCO_QUERY_TIMEOUT + 1,
     LOCO_QUERY_INTERVAL, LOCO_QUERY_INTERVAL + 1,
     TICKS_PERIOD - LOCO_QUERY_TIMEOUT - 1, TICKS_PERIOD - 5000,
     TICKS_PERIOD - 1}

\* time passes until the clock reads t; a pending query is followed for
\* one query interval
Tick(t) ==
    LET d == (t - ticks_ms + TICKS_PERIOD) % TICKS_PERIOD
    IN  /\ d > 0
        /\ locomotive_query_pending => elapsed + d <= LOCO_QUERY_INTERVAL
        /\ ticks_ms' = t
        /\ elapsed' = IF locomotive_query_pending THEN elapsed + d ELSE 0
        /\ UNCHANGED <<lvars, avars, hvars, tvars, xml_buffer, fmsg, rvars,
                       locomotive_query_start_time, rejected>>

\* "rocrail_protocol.get_query_start_time() > 0"
StartTimeSet == locomotive_query_start_time > 0

\* the main loop finds the query timed out
TimedOut ==
    /\ ~locomotives_loaded
    /\ locomotive_query_pending
    /\ StartTimeSet
    /\ ticks_diff(ticks_ms, locomotive_query_start_time) > LOCO_QUERY_TIMEOUT

\* one pass of the main loop: reset_query_state after a timeout, then the
\* periodic query when its timer is ready (due) and no query is pending
MainLoopPass(due) ==
    /\ IF ~locomotives_loaded /\ due /\ (TimedOut \/ ~locomotive_query_pending)
       THEN /\ locomotive_query_pending' = TRUE
            /\ locomotive_query_start_time' = ticks_ms
            /\ rocrail_status' = "connected"
            /\ elapsed' = 0
       ELSE /\ locomotive_query_pending' =
                   IF TimedOut THEN FALSE ELSE locomotive_query_pending
            /\ locomotive_query_start_time' =
                   IF TimedOut THEN 0 ELSE locomotive_query_start_time
            /\ elapsed' = IF TimedOut THEN 0 ELSE elapsed
            /\ UNCHANGED rocrail_status
    /\ UNCHANGED <<lvars, avars, hvars, tsk, running, reconnect_running,
                   reconnect_attempts, reconnect_enabled, locomotives_loaded,
                   socket_lock, tpc, tloc, tobs, xml_buffer, fmsg, rvars,
                   ticks_ms, rejected>>

\* handle_data commits the roster the server sent for the pending query
QueryAnswered ==
    /\ locomotive_query_pending
    /\ ~locomotives_loaded
    /\ \E r \in ServerRosters : locomotives' = r
    /\ selected_index' = 0
    /\ locomotive_query_pending' = FALSE
    /\ locomotive_query_start_time' = 0
    /\ locomotives_loaded' = TRUE
    /\ reconnect_enabled' = TRUE
    /\ rocrail_status' = "connected"
    /\ elapsed' = 0
    /\ UNCHANGED <<avars, hvars, tsk, running, reconnect_running,
                   reconnect_attempts, socket_lock, tpc, tloc, tobs,
                   xml_buffer, fmsg, rvars, ticks_ms, rejected>>

NextQuery ==
    \/ \E t \in Instants : Tick(t)
    \/ \E due \in BOOLEAN : MainLoopPass(due)
    \/ QueryAnswered

SpecQuery == Init /\ [][NextQuery]_vars

\* the listener of the open connection gives handle_data a packet: a tag, an
\* entry, a full read or a packet beyond the 8192-character limit
ListenData(p) ==
    /\ running
    /\ Marks(Join(xml_buffer, p)) <= MaxMarks + 1
    /\ HandleData(p)

NextSession ==
    \/ StartConnection \/ MainQuery
    \/ SendCheck(MainT) \/ SendSend(MainT)
    \/ StartGuard(MainT) \/ StartLoop(MainT)
    \/ PeerClose(1)
    \/ \E t \in {1, 5000} : Tick(t)
    \/ \E p \in {OpenTag, CloseTag, LcEntry, Text(4096), Text(8193)} :
          ListenData(p)

\* the main program's roster queries and handle_data on one connection, which
\* the server may close
SpecSession == Init /\ [][NextSession]_vars

(***************************************************************************)
(* The send functions of both protocol classes as the controller calls     *)
(* them, over every state of the LocoList: empty, loaded from a file,      *)
(* with and without a valid selection.  A call returns before the next.    *)
(***************************************************************************)
MaxSends == 2           \* calls of the send functions in one run

\* LocoList.get_selected_id: <<id>>, or <<>> for None
selected_id(l) ==
    IF l.locomotives # <<>> /\ 0 <= l.selected_index
       /\ l.selected_index < Len(l.locomotives)
    THEN <<l.locomotives[l.selected_index + 1].id>> ELSE <<>>

NoLocomotiveNever(current_loco_id) == FALSE

\* "if not current_loco_id:" holds for None and for the empty string
NoLocomotive(current_loco_id) ==
    current_loco_id = <<>> \/ current_loco_id[1] = ""

\* the id as the f-string prints it
IdText(current_loco_id) ==
    IF current_loco_id = <<>> THEN "None" ELSE current_loco_id[1]

\* f'<fn id="{current_loco_id}" f0="{light_on_off}" fnchanged="0"/>' and
\* f'<fn id="{current_loco_id}" fn0="{light_on_off}"/>'
fn_message(id, light_on_off, is_async) ==
    "<fn id=\"" \o id \o (IF is_async THEN "\" f0=\"" ELSE "\" fn0=\"")
        \o light_on_off \o (IF is_async THEN "\" fnchanged=\"0\"/>" ELSE "\"/>")

\* AsyncRocrailProtocol.send_speed_direction and send_light_command with
\* _send_message: m is the message the function builds for the id
AsyncSend(m) ==
    /\ sends' = sends + 1
    /\ IF NoLocomotive(selected_id(loco_list))
       THEN /\ returned' = FALSE
            /\ UNCHANGED <<message, full_message, send_queue, queue_event>>
       ELSE /\ message' = m
            /\ full_message' = encode(m)
            /\ send_queue' = Append(send_queue, encode(m))
            /\ queue_event' = TRUE
            /\ returned' = TRUE
    /\ UNCHANGED <<lvars, tvars, hvars, xml_buffer, rvars, qvars, svars, pvars,
                   last_rocrail_activity_time, speed_enabled,
                   state_rocrail_status, net, lck, rost, reconnect_task, ctl,
                   pc, current_task, loc>>

send_speed_direction(speed, direction) ==
    /\ sends < MaxSends
    /\ AsyncSend(lc_message(IdText(selected_id(loco_list)), speed, direction))

send_light_command(light_on_off) ==
    /\ sends < MaxSends
    /\ AsyncSend(fn_message(IdText(selected_id(loco_list)), light_on_off, TRUE))

\* RocrailProtocol.send_speed_and_direction and send_light_command, called
\* by the main loop
ThreadSend(m) ==
    /\ tpc[MainT] = "m_loop"
    /\ sends' = sends + 1
    /\ IF NoLocomotive(selected_id(loco_list)) \/ socket_client = 0
       THEN /\ returned' = FALSE
            /\ UNCHANGED <<message, full_message, rocrail_status, tpc,
                           last_rocrail_activity_time>>
       ELSE /\ message' = m
            /\ full_message' = encode(m)
            /\ \E o \in SendOutcomes(socket_client) :
                  IF o = "ok"
                  THEN /\ last_rocrail_activity_time' = ticks_ms
                       /\ rocrail_status' = "connected"
                       /\ returned' = TRUE
                       /\ UNCHANGED tpc
                  ELSE /\ rocrail_status' = "lost"
                       /\ Notify(MainT)
                       /\ returned' = FALSE
                       /\ UNCHANGED last_rocrail_activity_time
    /\ UNCHANGED <<lvars, avars, hvars, xml_buffer, rvars, qvars, svars, pvars, tsk,
                   tflag, trost, tloc, tobs, socket_lock>>

send_speed_and_direction(speed, direction) ==
    /\ sends < MaxSends
    /\ ThreadSend(lc_message(IdText(selected_id(loco_list)), speed, direction))

SendLightCommand(light_on_off) ==
    /\ sends < MaxSends
    /\ ThreadSend(fn_message(IdText(selected_id(loco_list)), light_on_off, FALSE))

NextSend ==
    \/ \E data \in StoredFiles : LoadFromFile(data)
    \/ SelectNext
    \/ Clear
    \/ \E speed \in Speeds, direction \in Directions :
          \/ send_speed_direction(speed, direction)
          \/ send_speed_and_direction(speed, direction)
    \/ \E light_on_off \in Directions :
          \/ send_light_command(light_on_off)
          \/ SendLightCommand(light_on_off)
    \/ StartConnection
    \/ SendCheck(MainT) \/ SendSend(MainT)
    \/ StartGuard(MainT)
    \/ PeerClose(1)

\* the send functions over the states of the LocoList
SpecSend == Init /\ [][NextSend]_vars

(***************************************************************************)
(* AsyncControllerState (lib/async_controllers/async_state.py) called by   *)
(* one task after the other: every method takes _state_lock, which is free *)
(***************************************************************************)
WifiStatuses == {"initial", "connecting", "connected", "failed"}
RocrailStatuses == {"disconnected", "connecting", "connected", "lost",
                    "reconnecting"}

\* the call is remembered together with the one before it
Called(c) == calls' = IF calls = <<>> THEN <<c>> ELSE <<calls[Len(calls)], c>>

KeepOld(old, status) == old

\* "if self._x != status: self._x = status": the field after the setter
Assigned(old, status) == IF old # status THEN status ELSE old

\* the event a setter sets when it has changed the field
Signalled(old, new, e) == IF old # new THEN events \cup {e} ELSE events

StateFrame ==
    UNCHANGED <<lvars, tvars, hvars, xml_buffer, rvars, qvars, pvars, message,
                full_message, returned, sends, last_rocrail_activity_time, net,
                lck, que, rost, reconnect_task, ctl, pc, current_task, loc>>

set_wifi_status(status) ==
    /\ wifi_status' = Assigned(wifi_status, status)
    /\ events' = Signalled(wifi_status, status, "wifi_changed")
    /\ Called(<<"set_wifi_status", status>>)
    /\ UNCHANGED <<state_rocrail_status, speed_enabled, got>>
    /\ StateFrame

set_rocrail_status(status) ==
    /\ state_rocrail_status' = Assigned(state_rocrail_status, status)
    /\ events' = Signalled(state_rocrail_status, status, "rocrail_changed")
    /\ Called(<<"set_rocrail_status", status>>)
    /\ UNCHANGED <<wifi_status, speed_enabled, got>>
    /\ StateFrame

enable_speed_sending ==
    /\ speed_enabled' = Assigned(speed_enabled, TRUE)
    /\ events' = Signalled(speed_enabled, TRUE, "speed_changed")
    /\ Called(<<"enable_speed_sending">>)
    /\ UNCHANGED <<wifi_status, state_rocrail_status, got>>
    /\ StateFrame

disable_speed_sending ==
    /\ speed_enabled' = Assigned(speed_enabled, FALSE)
    /\ events' = Signalled(speed_enabled, FALSE, "speed_changed")
    /\ Called(<<"disable_speed_sending">>)
    /\ UNCHANGED <<wifi_status, state_rocrail_status, got>>
    /\ StateFrame

\* a getter returns the field
Getter(name, field) ==
    /\ got' = field
    /\ Called(<<name>>)
    /\ UNCHANGED <<wifi_status, state_rocrail_status, speed_enabled, events>>
    /\ StateFrame

get_wifi_status ==
    /\ wifi_status \in WifiStatuses
    /\ Getter("get_wifi_status", wifi_status)

get_rocrail_status ==
    /\ state_rocrail_status \in RocrailStatuses
    /\ Getter("get_rocrail_status", state_rocrail_status)

is_speed_enabled ==
    /\ speed_enabled \in BOOLEAN
    /\ Getter("is_speed_enabled", speed_enabled)

\* wait_wifi_change, wait_rocrail_change, wait_speed_change return
WaitChange(e) ==
    /\ e \in events
    /\ events' = events \ {e}
    /\ Called(<<"wait", e>>)
    /\ UNCHANGED <<wifi_status, state_rocrail_status, speed_enabled, got>>
    /\ StateFrame

NextState ==
    \/ \E status \in WifiStatuses : set_wifi_status(status)
    \/ \E status \in RocrailStatuses : set_rocrail_status(status)
    \/ enable_speed_sending \/ disable_speed_sending
    \/ get_wifi_status \/ get_rocrail_status \/ is_speed_enabled
    \/ \E e \in {"wifi_changed", "rocrail_changed", "speed_changed"} :
          WaitChange(e)

SpecState == Init /\ [][NextState]_vars

(***************************************************************************)
(* The throttle: from the reading of the ADC to the V of the command.  A   *)
(* run is one of the asyncio program or one of the threaded program.       *)
(***************************************************************************)
\* readings of the 12-bit ADC: the stops and the middle of the throttle
AdcReadings == {0, 2048, 4095}

RECURSIVE Sum(_)
Sum(s) == IF s = <<>> THEN 0 ELSE Head(s) + Sum(Tail(s))

\* append, and pop(0) when the window is longer than its size
Window(s, x, size) ==
    IF Len(s) + 1 > size THEN Tail(Append(s, x)) ELSE Append(s, x)

Max2(a, b) == IF a > b THEN a ELSE b
Min2(a, b) == IF a < b THEN a ELSE b

\* int((raw_value / 4095.0) * 126)
adc_to_speed(raw_value) == (raw_value * 126) \div 4095

\* AsyncHardwareManager._read_speed_filtered: the value returned for the
\* window after the reading
filtered_speed(window) == Max2(0, Min2(126, Sum(window) \div Len(window)))

\* PotiController.read: int((filtered_value / 4096) * 100) of the average
normalized_value(window) == (Sum(window) * 100) \div (Len(window) * 4096)

\* read_all_inputs and self.current_speed = inputs['speed']
ReadSpeedFiltered(raw_value) ==
    /\ samples = <<>>
    /\ speed_samples' = Window(speed_samples, adc_to_speed(raw_value), 5)
    /\ current_speed' =
          filtered_speed(Window(speed_samples, adc_to_speed(raw_value), 5))
    /\ UNCHANGED <<lvars, tvars, hvars, xml_buffer, rvars, qvars, svars,
                   message, full_message, returned, sends,
                   last_rocrail_activity_time, samples, poti_speed, loco_dir,
                   sending_speed_enabled, poti_last_speed, speed_enabled,
                   state_rocrail_status, net, lck, que, rost, reconnect_task,
                   current_direction, current_light, last_speed, inputs, pc,
                   current_task, loc>>

\* what is unchanged by a step of the asyncio program at its throttle
AsyncThrottleFrame ==
    UNCHANGED <<lvars, tvars, hvars, xml_buffer, rvars, qvars, pvars, returned,
                sends, last_rocrail_activity_time, wifi_status, calls, got,
                state_rocrail_status, net, lck, que, rost, reconnect_task,
                current_speed, current_light, inputs, pc, current_task, loc>>

\* the direction button of the asyncio program: toggle,
\* signal_direction_changed, send_speed_direction(0, self.current_direction)
DirectionPressed(id) ==
    /\ samples = <<>>
    /\ current_direction' = Toggle(current_direction)
    /\ speed_enabled' = Assigned(speed_enabled, FALSE)
    /\ events' = Signalled(speed_enabled, FALSE, "speed_changed")
    /\ message' = lc_message(id, 0, Toggle(current_direction))
    /\ full_message' = encode(lc_message(id, 0, Toggle(current_direction)))
    /\ UNCHANGED last_speed
    /\ AsyncThrottleFrame

\* one pass of _speed_control_task: the changed speed is sent while sending
\* is enabled; while it is disabled the sample re-enables it at zero
SpeedCommand(id) ==
    /\ samples = <<>>
    /\ IF speed_enabled
       THEN /\ current_speed # last_speed
            /\ message' = lc_message(id, current_speed, current_direction)
            /\ full_message' =
                  encode(lc_message(id, current_speed, current_direction))
            /\ last_speed' = current_speed
            /\ UNCHANGED <<speed_enabled, events>>
       ELSE /\ speed_enabled' =
                  IF PotiAtZero(current_speed)
                  THEN Assigned(speed_enabled, TRUE) ELSE speed_enabled
            /\ events' =
                  IF PotiAtZero(current_speed)
                  THEN Signalled(speed_enabled, TRUE, "speed_changed")
                  ELSE events
            /\ UNCHANGED <<message, full_message, last_speed>>
    /\ UNCHANGED current_direction
    /\ AsyncThrottleFrame

\* what is unchanged by a step of the threaded program at its throttle
PotiFrame ==
    UNCHANGED <<lvars, avars, hvars, tvars, xml_buffer, rvars, qvars, svars,
                returned, sends, last_rocrail_activity_time, speed_samples>>

\* main loop: speed = speed_poti.read()
PotiRead(raw_value) ==
    /\ speed_samples = <<0, 0, 0, 0, 0>> /\ current_speed = 0
    /\ current_direction = "true" /\ events = {}
    /\ samples' = Window(samples, raw_value, 5)
    /\ poti_speed' = normalized_value(Window(samples, raw_value, 5))
    /\ UNCHANGED <<message, full_message, loco_dir, sending_speed_enabled,
                   poti_last_speed>>
    /\ PotiFrame

\* main loop: the direction button: toggle, send_speed_and_direction(0,
\* loco_dir), handle_direction_change
PotiDirection(id) ==
    /\ samples # <<>>
    /\ loco_dir' = Toggle(loco_dir)
    /\ message' = lc_message(id, 0, Toggle(loco_dir))
    /\ full_message' = encode(lc_message(id, 0, Toggle(loco_dir)))
    /\ sending_speed_enabled' = FALSE
    /\ UNCHANGED <<samples, poti_speed, poti_last_speed>>
    /\ PotiFrame

\* ControllerStateMachine.check_speed_enable_condition: the flag after it
check_speed_enable_condition(enabled, sample) ==
    IF ~enabled /\ PotiAtZero(sample) THEN TRUE ELSE enabled

\* main loop, every SPEED_UPDATE_INTERVAL: the changed speed is sent while
\* sending is enabled, else check_speed_enable_condition(speed)
PotiCommand(id) ==
    /\ samples # <<>>
    /\ IF sending_speed_enabled
       THEN /\ poti_speed # poti_last_speed
            /\ message' = lc_message(id, poti_speed, loco_dir)
            /\ full_message' = encode(lc_message(id, poti_speed, loco_dir))
            /\ poti_last_speed' = poti_speed
            /\ UNCHANGED sending_speed_enabled
       ELSE /\ sending_speed_enabled' =
                  check_speed_enable_condition(sending_speed_enabled, poti_speed)
            /\ UNCHANGED <<message, full_message, poti_last_speed>>
    /\ UNCHANGED <<samples, poti_speed, loco_dir>>
    /\ PotiFrame

NextThrottle ==
    \/ \E raw_value \in AdcReadings :
          ReadSpeedFiltered(raw_value) \/ PotiRead(raw_value)
    \/ DirectionPressed("BR01") \/ PotiDirection("BR01")
    \/ SpeedCommand("BR01") \/ PotiCommand("BR01")

\* the throttle and the zero interlock of both programs
SpecThrottle == Init /\ [][NextThrottle]_vars

(***************************************************************************)
(* Properties of the asyncio program                                       *)
(***************************************************************************)
\* C1 (as stated): after a locomotive, direction or emergency event speed
\* sending stays disabled until the interlock check has seen a zero throttle
\* sample that was read at or after the event.
C1_InterlockHoldsUntilFreshZero == await_zero => ~speed_enabled

\* C2 (as stated): no speed command with a nonzero V is appended to the send
\* queue while speed sending is disabled.
C2_NoNonzeroSpeedWhileDisabled ==
    \A i \in 1..Len(send_queue) :
        (send_queue[i].kind = "lc" /\ send_queue[i].V # 0) => send_queue[i].en

\* A step of _hardware_input_task that handles a context change and builds
\* its zero-speed message.
ContextChangeStep ==
    /\ pc[HW] \in {"hw_up", "hw_down", "hw_dir", "hw_emg"}
    /\ pc'[HW] \in {"hw_up_send", "hw_down_send", "hw_dir_send", "hw_emg_send"}

\* C3 (amended): on a context change the change is applied first; the
\* zero-speed command carries the locomotive id and the direction in force
\* after the change, and speed sending is disabled when the handler is done.
C3_StopFrameCarriesNewContext ==
    [][ContextChangeStep =>
          /\ pend'[HW].kind = "lc"
          /\ pend'[HW].V = 0
          /\ pend'[HW].id = get_selected_id'
          /\ pend'[HW].dir = current_direction'
          /\ ~speed_enabled']_vars

\* C3 (as stated): the zero-speed command carries the previous locomotive id
\* and the previous direction.
C3_StopFrameCarriesPreviousContext ==
    [][ContextChangeStep =>
          /\ pend'[HW].kind = "lc"
          /\ pend'[HW].V = 0
          /\ pend'[HW].id = get_selected_id
          /\ pend'[HW].dir = current_direction]_vars

\* C3 witness: the next-locomotive button changed the selection and the
\* zero-speed message for the newly selected locomotive is about to be queued.
C3_Witness ==
    /\ pc[HW] = "hw_up_send"
    /\ pend[HW].safety
    /\ pend[HW].id = get_selected_id
    /\ selected_index = 1
    /\ ~speed_enabled

\* The _auto_reconnect tasks that are not done.
NotDone == {k \in 1..MaxReconnectTasks : pc[AR(k)] \notin {"none", "done"}}

\* C5: there is never more than one _auto_reconnect task that is not done,
\* and right after every connection-loss notification there is exactly one.
C5_SingleFlightAsync ==
    /\ Cardinality(NotDone) <= 1
    /\ notif => Cardinality(NotDone) = 1

\* C5 witness: a notification arrived while the reconnection task created by
\* an earlier notification is in the middle of its attempt.
C5_Witness ==
    /\ notif
    /\ reconnect_task = 1
    /\ pc[AR(1)] \in {"ar_sleep1", "disc_closing", "ar_sleep2", "conn_opening"}

\* C6: the frames are written in the order in which they were appended to the
\* send queue (frame numbers on the wire strictly increase).
C6_FifoTransmission ==
    \A i, j \in 1..Len(wire) : i < j => wire[i].n < wire[j].n

\* C6 witness: the send task of the second connection is writing a frame while
\* the send task of the first connection still exists, after three writes.
C6_Witness ==
    /\ pc[Snd(2)] = "snd_drain"
    /\ pc[Snd(1)] \in {"snd_wait", "snd_pop"}
    /\ Len(wire) >= 3
    /\ msg[Snd(2)].kind = "lc"

\* C7 (as stated): a later speed frame is never written while an earlier
\* zero-speed safety frame was taken from the queue and not written.
C7_SafetyFrameNotOvertaken ==
    \A i \in 1..Len(wire) :
        wire[i].kind = "lc" => \A m \in lost : m > wire[i].n

\* C8 (as stated): whenever the status is "connected" the reader and the
\* writer exist.
C8_ConnectedHasTransport ==
    state_rocrail_status = "connected" => (reader # 0 /\ writer # 0)

(***************************************************************************)
(* Properties of the threaded program                                      *)
(***************************************************************************)
LiveLoops == {t \in ReconnectLoops : Alive(t)}

\* C4 (as stated): whatever the interleaving of the listener thread and the
\* main thread through the reconnect_running check, at most one
\* _reconnect_loop thread exists at any time.
C4_SingleReconnectLoop == Cardinality(LiveLoops) <= 1

\* C9 (as stated): while a _reconnect_loop sleeps before its next attempt, the
\* delay it chose is the fast one before its 1st, 2nd and 3rd attempt and the
\* slow one before every later attempt.
C9_BackoffSchedule ==
    \A t \in ReconnectLoops :
        tpc[t] = "r_sleep" =>
            delay[t] = IF own_attempts[t] < RECONNECT_FAST_ATTEMPTS
                       THEN RECONNECT_DELAY_FAST ELSE RECONNECT_DELAY_SLOW

\* the step that commits a roster
RosterCommit ==
    /\ ~locomotives_loaded
    /\ locomotives_loaded'
    /\ locomotives' \in ServerRosters

\* C10: no reconnection loop is started before the first successful roster
\* load: a loop has been started, or a thread is about to start one, only
\* with reconnect_enabled and a loaded roster; after a failed initial
\* start_connection no thread but the main program ever exists;
\* reconnect_enabled changes only from false to true and only in the step
\* that commits a roster.
C10_NoLoopBeforeRoster ==
    /\ [](/\ (loops_started > 0 \/ \E t \in Threads : tpc[t] = "srt_set")
              => (reconnect_enabled /\ locomotives_loaded)
          /\ tpc[MainT] = "done"
              => \A t \in Threads \ {MainT} : tpc[t] = "none")
    /\ [][reconnect_enabled' # reconnect_enabled
            => (~reconnect_enabled /\ reconnect_enabled' /\ RosterCommit)]_vars

\* C10 witness: the listener has seen the connection lost before any roster
\* was loaded, went through _start_reconnect_thread and is back with no loop
\* started.
C10_Witness ==
    /\ ~reconnect_enabled
    /\ rocrail_status = "lost"
    /\ tpc[Lis(1)] = "l_end"
    /\ loops_started = 0

\* the model's supply of threads or of connection attempts is used up
BudgetSpent ==
    \/ loops_started = MaxLoops
    \/ AttemptsBegun(MaxLoops) = MaxAttempts

\* C11 (as stated): once reconnection is enabled, the status "lost" never
\* stays for ever: it is followed by a reconnection loop's connection attempt
\* (which sets the status to "reconnecting") or by another change of status.
C11_LostLeadsToReconnection ==
    (reconnect_enabled /\ rocrail_status = "lost")
        ~> (rocrail_status # "lost" \/ BudgetSpent)

\* positions of a _reconnect_loop from the return of a successful connect on
AfterSuccess ==
    {"a_listen", "q_check", "q_send", "srt_guard", "srt_set", "r_end", "done"}

\* C12: a _reconnect_loop ends at its first successful attempt: the step in
\* which connect succeeds sets the status to "connected", and from there on
\* the loop begins no further attempt (its count of attempts stays k+1) and
\* only queries the roster and ends.
C12_LoopEndsAtFirstSuccess ==
    [][\A t \in ReconnectLoops :
          /\ (tpc[t] = "a_conn" /\ tpc'[t] = "a_listen")
                => (rocrail_status' = "connected" /\ sock'[hold[t]] = "open")
          /\ tpc[t] \in AfterSuccess
                => /\ tpc'[t] \in AfterSuccess
                   /\ own_attempts'[t] = own_attempts[t]]_vars

\* C12 witness: the loop's first attempt failed, its second succeeded, and
\* the loop has ended after exactly two attempts with the status "connected".
C12_Witness ==
    /\ tpc[Rec(1)] = "done"
    /\ own_attempts[Rec(1)] = 2
    /\ loops_started = 1
    /\ rocrail_status = "connected"
    /\ socket_client # 0
    /\ sock[socket_client] = "open"
    /\ ~reconnect_running

(***************************************************************************)
(* Properties of the receive buffer                                        *)
(***************************************************************************)
\* C13: after every call of the threaded handle_data the receive buffer
\* holds at most 16384 characters, whatever was received (in particular a
\* stream that never completes a roster record).
C13_BufferBounded == StrLen(xml_buffer) <= 16384

\* C13 witness: no roster is loaded and the buffer was cut back to the 8192
\* characters from <lclist> on (the packet lengths do not add up to 8184).
C13_Witness ==
    /\ ~locomotives_loaded
    /\ xml_buffer = OpenTag \o Text(8184)

\* C14 (as stated): the receive buffer of the asyncio class never holds more
\* than the 16384-character ceiling plus one read of 4096 characters.
C14_AsyncBufferBounded == StrLen(xml_buffer) <= 16384 + 4096

(***************************************************************************)
(* Properties of the framing                                               *)
(***************************************************************************)
\* the command of scenario A: locomotive BR103, speed 50, direction "true"
ScenarioA == "<lc id=\"BR103\" V=\"50\" dir=\"true\"/>"

\* C15 (as stated): the command of scenario A is framed with the announced
\* size 33.
C15_ScenarioASize33 ==
    message = ScenarioA
        => full_message = "<xmlh><xml size=\"33\"/></xmlh>" \o ScenarioA

\* C15 (amended): the command of scenario A is framed as the header
\* announcing the size 34 followed by the command, and 34 is the length of the
\* command.
C15_ScenarioASize34 ==
    message = ScenarioA
        => /\ full_message = "<xmlh><xml size=\"34\"/></xmlh>" \o ScenarioA
           /\ Len(message) = 34

\* C15 witness: the speed command for BR103, speed 50, direction "true" has
\* been built and framed.
C15_Witness == message = ScenarioA /\ full_message # ""

(***************************************************************************)
(* Properties of the LocoList                                              *)
(***************************************************************************)
\* an entry that carries a live-state attribute and no identity attribute
StatusUpdate(lc_entry) ==
    /\ \E i \in 1..Len(lc_entry) : lc_entry[i][1] \in StatusAttrs
    /\ \A i \in 1..Len(lc_entry) : lc_entry[i][1] \notin DefinitionAttrs

Definitions(xml) == SelectSeq(xml, LAMBDA e : ~StatusUpdate(e))

ScenarioB ==
    << <<Attr("id", "BR01"), Attr("roadname", "Express")>>,
       <<Attr("id", "BR02"), Attr("V", "10"), Attr("dir", "true")>> >>

\* C16: an entry with live-state attributes and no identity attribute never
\* yields a roster entry: what is extracted from a record is what is
\* extracted from its other entries, at most one per such entry; from the
\* record of scenario B exactly one entry is extracted and committed, with
\* id BR01 and display name "BR01 (Express)".
C16_OnlyDefinitionsPopulate ==
    /\ locomotives_found
           = extract_locomotives_from_lclist(Definitions(xml_response))
    /\ Len(locomotives_found) <= Len(Definitions(xml_response))
    /\ xml_response = ScenarioB
           => /\ locomotives_found = <<[id |-> "BR01", name |-> "BR01 (Express)"]>>
              /\ loco_list.locomotives = locomotives_found

C16_Witness ==
    /\ xml_response = ScenarioB
    /\ loco_list.locomotives = <<[id |-> "BR01", name |-> "BR01 (Express)"]>>

Ids(l) == [i \in 1..Len(l) |-> l[i].id]

\* the entries of l that are the first with their id, in the order of l
FirstById(l) ==
    SelectSeq([i \in 1..Len(l) |-> [at |-> i, item |-> l[i]]],
              LAMBDA x : \A j \in 1..(x.at - 1) : l[j].id # x.item.id)

\* C17 (as stated): the extractor's result and the roster committed from it
\* list every distinct id of the record exactly once, in document order.
C17_DistinctIdsInDocumentOrder ==
    locomotives_found # <<>>
        => /\ Ids(locomotives_found)
                 = [i \in 1..Len(FirstById(locomotives_found))
                        |-> FirstById(locomotives_found)[i].item.id]
           /\ Ids(loco_list.locomotives) = Ids(locomotives_found)

\* the first five of the extracted entries that are the first with their id
FirstFive ==
    {FirstById(locomotives_found)[i].item :
         i \in 1..Len(FirstById(locomotives_found)) \cap 1..5}

\* C17 (amended): the committed roster holds the first five distinct
\* extracted ids, each once with the name of its first entry, sorted by
\* upper-cased display name; the extractor's result holds one entry for every
\* entry of the record that yields one, in document order.
C17_DistinctIdsSortedByName ==
    locomotives_found # <<>>
        => LET l == loco_list.locomotives
           IN  /\ {l[i] : i \in 1..Len(l)} = FirstFive
               /\ Len(l) = Cardinality(FirstFive)
               /\ \A i, j \in 1..Len(l) :
                      i < j => Rank(l[i].name) <= Rank(l[j].name)
               /\ Len(locomotives_found)
                      = Cardinality({p \in 1..Len(xml_response) :
                            extract_loco_info_from_entry(xml_response[p])
                                # <<>>})
               /\ \E f \in [1..Len(locomotives_found)
                                -> 1..Len(xml_response)] :
                      /\ \A i, j \in 1..Len(locomotives_found) :
                             i < j => f[i] < f[j]
                      /\ \A i \in 1..Len(locomotives_found) :
                             extract_loco_info_from_entry(xml_response[f[i]])
                                 = <<locomotives_found[i]>>

C17_Witness ==
    /\ xml_response = << <<Attr("id", "BR02"), Attr("number", "7")>>,
                          <<Attr("id", "BR01"), Attr("roadname", "Express")>> >>
    /\ loco_list.locomotives = <<[id |-> "BR01", name |-> "BR01 (Express)"],
                                  [id |-> "BR02", name |-> "BR02 #7"]>>

\* C18: giving update_from_rocrail_response the record it was given last
\* leaves the committed roster as it is (ids, display names, order), without
\* duplicate ids.
C18_RosterIdempotence ==
    [][\A xml \in Records :
          (applied > 0 /\ xml = xml_response /\ UpdateFromRocrailResponse(xml))
              => /\ loco_list'.locomotives = loco_list.locomotives
                 /\ locomotives_found' # <<>>
                        => \A i, j \in 1..Len(loco_list'.locomotives) :
                               loco_list'.locomotives[i].id
                                   = loco_list'.locomotives[j].id => i = j]_vars

C18_Witness ==
    /\ applied = 2
    /\ xml_response = << <<Attr("id", "BR01"), Attr("roadname", "Express")>>,
                          <<Attr("id", "BR01"), Attr("roadname", "Cargo")>> >>
    /\ loco_list.locomotives = <<[id |-> "BR01", name |-> "BR01 (Express)"]>>

\* C19: the roster has at most 5 entries, its ids are unique and not empty,
\* and the roster is empty or 0 <= selected_index < number of entries.
C19_RosterInvariant ==
    LET l == loco_list.locomotives
    IN  /\ Len(l) <= 5
        /\ \A i, j \in 1..Len(l) : l[i].id = l[j].id => i = j
        /\ \A i \in 1..Len(l) : l[i].id # ""
        /\ \/ l = <<>>
           \/ 0 <= loco_list.selected_index
                 /\ loco_list.selected_index < Len(l)

(***************************************************************************)
(* Properties of the roster query                                          *)
(***************************************************************************)
\* C20: whenever a query is pending, no roster is committed and more than
\* LOCO_QUERY_TIMEOUT has elapsed since the query was sent, the main loop
\* finds the query timed out and clears the pending flag in its next pass,
\* whatever the start time of the query, 0 included.
C20_PendingQueryTimesOut ==
    (/\ locomotive_query_pending
     /\ ~locomotives_loaded
     /\ elapsed > LOCO_QUERY_TIMEOUT)
        => TimedOut

(***************************************************************************)
(* Properties of the shutdown and of the loss of the connection            *)
(***************************************************************************)
\* the calls of disconnect in progress
InDisconnect(t) == pc[t] \in {"disc", "disc_closing"}

LockHeldAcrossIO ==
    /\ protocol_lock # NoTask
    /\ pc[protocol_lock] \in {"conn_opening", "disc_closing"}

\* C22: a send never waits on network I/O: the hardware-input task and the
\* speed-control task are never suspended in send_speed_direction or
\* send_light_command while a connect or a disconnect is in progress.
C22_SendNeverWaitsOnIO ==
    \A t \in {HW, SPD} :
        ~(/\ pc[t] \in SendLabels
          /\ current_task # t
          /\ LockHeldAcrossIO)

\* C23: any write error is treated as connection loss: whenever the write
\* of a frame raises (the frame does not stay on the wire), the status
\* becomes "lost" and the send task goes on to tear the connection down and
\* to trigger a reconnection.
C23_WriteErrorIsLoss ==
    [][\A t \in SendTasks :
          (pc[t] = "snd_drain" /\ pc'[t] # "snd_drain" /\ wire' # wire)
             => /\ state_rocrail_status' = "lost"
                /\ pc'[t] = "disc"
                /\ ret'[t] = "snd_trig"]_vars

\* C24: cancellation as a unit: once stop_connection has returned, at
\* whatever point of a running reconnection loop it was issued, no new
\* connection is established and the status stays "disconnected".
C24_StopCancelsAll ==
    [][tpc[MainT] = "stopped"
          => /\ rocrail_status' = "disconnected"
             /\ \A c \in Socks : sock'[c] = "open" => sock[c] = "open"]_vars

(***************************************************************************)
(* Properties of the send functions                                        *)
(***************************************************************************)
\* C25: a send attempted with no locomotive selected is a no-op that returns
\* failure: the call returns False, nothing is built, enqueued or written,
\* and the status, the activity timestamp and the reconnection state of
\* both protocol classes are as before.
C25_SendWithoutSelectionIsNoOp ==
    [][(sends' = sends + 1 /\ selected_id(loco_list) = <<>>)
          => /\ returned' = FALSE
             /\ UNCHANGED <<message, full_message, send_queue, queue_event,
                            wire, state_rocrail_status, rocrail_status,
                            last_rocrail_activity_time, reconnect_running,
                            reconnect_attempts, reconnect_task, tpc,
                            socket_client, sock>>]_vars

\* the second send found the roster empty on a live connection, after a first
\* one was queued
C25_Witness ==
    /\ sends = 2
    /\ returned = FALSE
    /\ loco_list.locomotives = <<>>
    /\ Len(send_queue) = 1
    /\ socket_client # 0
    /\ sock[socket_client] = "open"

\* the speed commands with a V in 0..100 and a dir "true" or "false"
ValidSpeedCommands ==
    {lc_message(id, V, dir) : id \in LocoIds, V \in 0..100, dir \in Directions}

\* C26: every speed/direction command carries a V that is an integer in
\* 0..100 and a dir that is "true" or "false", for every throttle value the
\* input layer of either controller delivers.
C26_SpeedCommandInRange ==
    message # "" => message \in ValidSpeedCommands

(***************************************************************************)
(* Properties of AsyncControllerState                                      *)
(***************************************************************************)
\* C27: AsyncControllerState is a register: speed sending is enabled in the
\* initial state; is_speed_enabled returns false right after
\* disable_speed_sending and true right after enable_speed_sending, whatever
\* was called before; a getter called right after set_rocrail_status(s) or
\* set_wifi_status(s) returns s.
C27_StateIsRegister ==
    /\ calls = <<>> => speed_enabled
    /\ calls = << <<"is_speed_enabled">> >> => got = TRUE
    /\ calls = << <<"disable_speed_sending">>, <<"is_speed_enabled">> >>
          => got = FALSE
    /\ calls = << <<"enable_speed_sending">>, <<"is_speed_enabled">> >>
          => got = TRUE
    /\ \A s \in RocrailStatuses :
          calls = << <<"set_rocrail_status", s>>, <<"get_rocrail_status">> >>
             => got = s
    /\ \A s \in WifiStatuses :
          calls = << <<"set_wifi_status", s>>, <<"get_wifi_status">> >>
             => got = s

\* the status was "lost" and the sending disabled when "connected" was set
\* and read back
C27_Witness ==
    /\ calls = << <<"set_rocrail_status", "connected">>,
                  <<"get_rocrail_status">> >>
    /\ got = "connected"
    /\ ~speed_enabled
    /\ "rocrail_changed" \in events


\* C28: whenever the interlock check runs while speed sending is disabled,
\* sending is enabled in that same check exactly when the throttle sample is
\* 0: a check that sees 0 enables it, a check that sees anything else leaves
\* it disabled; this holds of _speed_control_task and of the threaded main
\* loop's check_speed_enable_condition.
C28_EnabledAtExactZero ==
    [][/\ (SpeedCommand("BR01") /\ ~speed_enabled)
            => (speed_enabled' = (current_speed = 0))
       /\ (PotiCommand("BR01") /\ ~sending_speed_enabled)
            => (sending_speed_enabled' = (poti_speed = 0))
       /\ (~speed_enabled /\ speed_enabled') => current_speed = 0
       /\ (~sending_speed_enabled /\ sending_speed_enabled')
            => poti_speed = 0]_vars

\* sending was disabled by a direction change with the throttle up, and a
\* later check that saw the throttle at 0 has enabled it again
C28_Witness ==
    \/ /\ speed_enabled /\ current_direction = "false" /\ current_speed = 0
       /\ last_speed > 0
    \/ /\ sending_speed_enabled /\ loco_dir = "false" /\ poti_speed = 0
       /\ poti_last_speed > 0


\* a step of listener t in which recv on a connection the server has closed
\* returns empty
EmptyRead(t) ==
    /\ tpc[t] = "l_recv" /\ tpc'[t] # "l_recv"
    /\ hold[t] # 0 /\ sock[hold[t]] = "peer_closed"

\* a step in which thread t starts a _reconnect_loop thread
LoopStartedBy(t) ==
    /\ tpc[t] = "srt_set" /\ tpc'[t] # "srt_set"
    /\ reconnect_running'
    /\ \E k \in Loops : tpc[Rec(k)] = "none" /\ tpc'[Rec(k)] = "r_head"

\* the listener that has read empty sets the status to lost, lets go of the
\* socket and never reads again
ReaderStops(t) ==
    /\ EmptyRead(t) =>
          /\ rocrail_status' = "lost"
          /\ hold'[t] = 0
          /\ tpc'[t] \in {"srt_guard", "l_end"}
          /\ tpc'[t] = "l_end" => reconnect_running
    /\ tpc[t] \in {"srt_guard", "srt_set", "l_end"} =>
          tpc'[t] \notin {"l_loop", "l_recv"}

\* C29 as stated: a socket_listener whose recv returns empty sets the status
\* to lost, stops reading, and starts a reconnection loop unless
\* reconnect_running is set.
C29_EmptyReadTriggersReconnect ==
    [][\A t \in Listeners :
          /\ ReaderStops(t)
          /\ (tpc[t] = "srt_guard" /\ tpc'[t] # "srt_guard"
                /\ ~reconnect_running) => tpc'[t] = "srt_set"
          /\ (tpc[t] = "srt_set" /\ tpc'[t] # "srt_set"
                /\ loops_started < MaxLoops) => LoopStartedBy(t)]_vars

\* C29, amended: a socket_listener whose recv returns empty sets the status
\* to lost, stops reading, and starts a reconnection loop unless
\* reconnect_running is set or no roster has been loaded yet
\* (reconnect_enabled is false).
C29_EmptyReadTriggersOnceEnabled ==
    [][\A t \in Listeners :
          /\ ReaderStops(t)
          /\ (tpc[t] = "srt_guard" /\ tpc'[t] # "srt_guard"
                /\ ~reconnect_running /\ reconnect_enabled)
               => tpc'[t] = "srt_set"
          /\ (tpc[t] = "srt_set" /\ tpc'[t] # "srt_set"
                /\ loops_started < MaxLoops) => LoopStartedBy(t)]_vars

\* the server closed the connection after the roster was loaded, the
\* listener read empty and has started a reconnection loop
C29_Witness ==
    \E t \in Listeners :
       /\ tpc[t] \in {"l_end", "done"}
       /\ hold[t] = 0 /\ sock[t[2]] = "peer_closed"
       /\ reconnect_enabled /\ loops_started = 1
       /\ tpc[Rec(1)] = "r_head" /\ tpc[MainT] = "m_loop"


\* C30 as stated, for the asyncio _receive_task: a single read error does not
\* make the session status lost.  The read that follows the server's close
\* is the first of the task that raises; the step in which it raises ENOTCONN
\* must leave the status as it is.
C30_SingleReadErrorIsNotLoss ==
    [][\A t \in RecvTasks :
          (/\ pc[t] = "rcv_reading" /\ io[t] # 0
           /\ conn[io[t]] = "peer_closed"
           /\ ret'[t] = "rcv_trig_err")
          => state_rocrail_status' # "lost"]_vars


\* tasks of the set ts that have been created and have not ended
AliveTasks(ts) == {t \in ts : pc[t] \notin {"none", "done"}}

\* C31, asyncio: at no time is more than one _receive_task or more than one
\* _send_task of the protocol object alive, and a _receive_task reads only
\* the transport of the connect that created it.
C31_OneReaderOneWriter ==
    /\ Cardinality(AliveTasks(RecvTasks)) <= 1
    /\ Cardinality(AliveTasks(SendTasks)) <= 1
    /\ \A c \in Conns : io[Rcv(c)] \in {0, c}


\* C32: the session status of the asyncio program is at every moment one of
\* disconnected, connecting, connected, lost, reconnecting.
C32_StatusIsOneOfFive == state_rocrail_status \in RocrailStatuses


C35_DataRestoresConnected ==
    [][\A p \in {OpenTag, CloseTag, LcEntry, Text(4096), Text(8193)} :
          ListenData(p) =>
             /\ last_rocrail_activity_time' = ticks_ms
             /\ rocrail_status = "lost" => rocrail_status' = "connected"]_vars

\* a query has failed on the closed connection and set the status to lost;
\* a packet received after it has set it to connected again
C35_Witness ==
    /\ tpc[MainT] = "m_loop" /\ sock[1] = "peer_closed"
    /\ ~locomotives_loaded /\ ~locomotive_query_pending
    /\ rocrail_status = "connected"
    /\ last_rocrail_activity_time = 5000 /\ ticks_ms = 5000


\* C36: a packet of more than 8192 characters given to handle_data is
\* dropped: the step leaves xml_buffer, the roster and its selection,
\* locomotives_loaded and locomotive_query_pending as they were.
C36_OversizedPacketDropped ==
    [][\A p \in Packets :
          StrLen(p) > 8192 /\ HandleDataPacket(p) =>
             UNCHANGED <<xml_buffer, locomotives, selected_index,
                         locomotives_loaded, locomotive_query_pending>>]_vars

\* the last packet was rejected for its size while a started roster record
\* was waiting in the buffer
C36_Witness ==
    /\ rejected
    /\ ~locomotives_loaded
    /\ Find(xml_buffer, "open") # -1
    /\ rocrail_status = "connected"


WellFormed(e) == \A k \in 1..Len(e) : Len(e[k]) = 2
ValidDefinition(e) ==
    /\ WellFormed(e)
    /\ has_definition_attrs(e)
    /\ extract_loco_info_from_entry(e) # <<>>
BadEntry(e) ==
    \/ ~WellFormed(e)
    \/ ~SkipStatusUpdate(e) /\ extract_loco_info_from_entry(e) = <<>>

\* C37: a roster record with one bad entry (no identifier, a missing closing
\* quote or a missing terminator) among valid definition entries is extracted
\* and committed as the record without the bad entry is.
C37_BadEntrySkipped ==
    \A i \in 1..Len(xml_response) :
        ( /\ applied > 0
          /\ Len(xml_response) > 1
          /\ BadEntry(xml_response[i])
          /\ \A j \in 1..Len(xml_response) :
                 j # i => ValidDefinition(xml_response[j]) )
        => /\ locomotives_found =
                  extract_locomotives_from_lclist(Without(xml_response, i))
           /\ loco_list =
                  AddAll(EmptyList,
                         extract_locomotives_from_lclist(
                             Without(xml_response, i)))


\* C38: the id of the selected locomotive changes only in a step after which
\* speed sending is disabled; the commit of a roster received from the
\* server is such a step.
C38_SelectionChangeDisablesSpeed ==
    [][get_selected_id' # get_selected_id => ~speed_enabled']_vars


\* the command carries V = v
CarriesV(m, v) == \E d \in Directions : m = lc_message("BR01", v, d)

\* C39: the commanded speed follows the throttle.  With speed sending
\* enabled, once the speed-update step has nothing left to send for the
\* sample v (v is the value it sent last), the most recent speed command
\* sent carries V = v, also after an interlock cycle; were it otherwise the
\* command would never carry v while the sample stays at v.
C39_CommandFollowsThrottle ==
    /\ (samples = <<>> /\ message # "" /\ speed_enabled
            /\ current_speed = last_speed)
           => CarriesV(message, current_speed)
    /\ (samples # <<>> /\ message # "" /\ sending_speed_enabled
            /\ poti_speed = poti_last_speed)
           => CarriesV(message, poti_speed)


\* the threads that have set _socket_lock and not yet released it
LockHolders == {t \in Threads : tpc[t] \in {"c_rel", "a_conn", "a_listen", "st_rel"}}

\* C40: at most one thread holds _socket_lock at a time, and a step that
\* releases the lock is a step of a thread that holds it (or, in
\* _attempt_connection, of the thread that takes it in that step); the
\* thread whose _acquire_socket_lock timed out does not release it.
C40_SocketLockDiscipline ==
    [][/\ Cardinality(LockHolders') <= 1
       /\ (socket_lock /\ ~socket_lock') =>
             \E t \in LockHolders \cup {u \in Threads : tpc[u] = "a_set"} :
                 tpc'[t] # tpc[t]]_vars

====
